---------------------------- MODULE Spec2Model ----------------------------
(***************************************************************************)
(* Verification model of the decision-intelligence repository.            *)
(*                                                                         *)
(*   - the decision ledger handlers of backend/server.py                   *)
(*     (approve_decision / reject_decision), one action per await point;   *)
(*   - the plan/actual gap arithmetic of core/gap_analyzer.py;             *)
(*   - the analysis pipeline of core/decision_engine.py with its           *)
(*     components (entity detector, gap analyzer, constraint extractor).   *)
(*                                                                         *)
(* Each part has its own specification (SpecLedger, SpecGapFn,            *)
(* SpecEngine); a specification leaves the variables of the other parts    *)
(* at their initial value.                                                 *)
(***************************************************************************)
EXTENDS Integers, Sequences, FiniteSets, TLC

VARIABLES
    \* ---- backend/server.py: MongoDB collections and request handlers ----
    intelligence_analyses,  \* db.intelligence_analyses: set of analysis docs
    ledger,                 \* db.decision_ledger_entries: sequence of entries
    hpc,                    \* handler -> position in approve/reject
    hreq,                   \* handler -> the request it serves
    hentry,                 \* handler -> its local ledger_entry
    hresp,                  \* handler -> the response it returned
    clock,                  \* datetime.now(), as a logical clock
    calls,                  \* number of requests received so far
    \* ---- core/gap_analyzer.py: one call of a gap function ----
    gcall,                  \* the call: the function and its arguments
    gret,                   \* its return value (Nothing before the call)
    \* ---- core/decision_engine.py: the engine and the analysis in progress ----
    entity_detector,        \* EntityDetector: entities, column_to_entity, value_index
    self_relationship_graph, \* self.relationship_graph: a RelationshipGraph
    gap_analyzer,           \* GapAnalyzer: gaps, plans, actuals, column_pairs
    constraint_extractor,   \* ConstraintExtractor: constraints
    decision_generator,     \* DecisionGenerator: decisions, actions
    self_context,           \* self.context: metadata and entity_graph
    self_processing_notes,  \* self.processing_notes
    engine_calls,           \* analyze() calls this engine has finished
    epc,                    \* position in analyze()
    arg_dataset_id,             \* analyze's dataset_id argument
    local_normalized_datasets,    \* analyze's local_normalized_datasets
    local_sheet_profiles,         \* analyze's local_sheet_profiles
    uuids,                  \* uuid4 values drawn for Entity ids so far
    runs,                   \* analyze() calls begun so far
    results,                \* what the finished analyze() calls returned
    \* ---- core/relationship_graph.py: a RelationshipGraph on its own ----
    graph,                  \* relationships, adjacency, relationship_index
    added,                  \* the relationships handed to _add_relationship so far
    \* ---- core/decision_generator.py: one call of generate_decisions ----
    dcall,                  \* the call: context, relationship graph, set order
    dret,                   \* the generator after the call (Nothing before it)
    \* ---- core/decision_grouper.py: one call of group_decisions ----
    tcall,                  \* the call: the decisions, the set order of the metrics
    tret,                   \* the themes and summary it returned (Nothing before)
    \* ---- core/decision_engine.py: one call of _build_result ----
    rcall,                  \* the call: the values of the numeric fields
    rret,                   \* the result it returned (Nothing before the call)
    \* ---- one call of a query or a helper on arguments from bounded sets ----
    qcall,                  \* the call: the function and its arguments
    qret                    \* its return value (Nothing before the call)

ledgerVars == <<intelligence_analyses, ledger, hpc, hreq, hentry, hresp, clock, calls>>

gapFnVars == <<gcall, gret>>

engineVars == <<entity_detector, self_relationship_graph, gap_analyzer, constraint_extractor,
                decision_generator, self_context, self_processing_notes, engine_calls,
                epc, arg_dataset_id, local_normalized_datasets, local_sheet_profiles, uuids, runs,
                results>>

graphVars == <<graph, added>>

decisionVars == <<dcall, dret>>

groupingVars == <<tcall, tret>>

resultVars == <<rcall, rret>>

callVars == <<qcall, qret>>

\* What the steps of one part leave alone: the variables of the other parts.
nonLedgerVars == <<gapFnVars, engineVars, graphVars, decisionVars, groupingVars, resultVars, callVars>>

nonGapFnVars == <<ledgerVars, engineVars, graphVars, decisionVars, groupingVars, resultVars, callVars>>

nonEngineVars == <<ledgerVars, gapFnVars, graphVars, decisionVars, groupingVars, resultVars, callVars>>

nonGraphVars == <<ledgerVars, gapFnVars, engineVars, decisionVars, groupingVars, resultVars, callVars>>

nonGroupingVars == <<ledgerVars, gapFnVars, engineVars, graphVars, decisionVars, resultVars, callVars>>

nonDecisionVars == <<ledgerVars, gapFnVars, engineVars, graphVars, groupingVars, resultVars, callVars>>

nonResultVars == <<ledgerVars, gapFnVars, engineVars, graphVars, decisionVars, groupingVars, callVars>>

nonCallVars == <<ledgerVars, gapFnVars, engineVars, graphVars, decisionVars, groupingVars, resultVars>>

vars == <<intelligence_analyses, ledger, hpc, hreq, hentry, hresp, clock, calls,
          gcall, gret,
          entity_detector, self_relationship_graph, gap_analyzer, constraint_extractor,
          decision_generator, self_context, self_processing_notes, engine_calls,
          epc, arg_dataset_id, local_normalized_datasets, local_sheet_profiles, uuids, runs,
          results,
          graph, added,
          dcall, dret,
          tcall, tret,
          rcall, rret,
          qcall, qret>>

-----------------------------------------------------------------------------
(***************************************************************************)
(* Generic helpers                                                         *)
(***************************************************************************)
None == "None"

\* An optional value (Python's None or a value): the empty set or a singleton.
Nothing == {}
Some(x) == {x}
The(opt) == CHOOSE x \in opt : TRUE

Range(s) == {s[i] : i \in DOMAIN s}

Abs(x) == IF x < 0 THEN -x ELSE x

Min(a, b) == IF a <= b THEN a ELSE b

Max(a, b) == IF a >= b THEN a ELSE b

RECURSIVE GCD(_, _)
GCD(a, b) == IF b = 0 THEN a ELSE GCD(b, a % b)

RECURSIVE SumSeq(_)
SumSeq(s) == IF s = <<>> THEN 0 ELSE Head(s) + SumSeq(Tail(s))

\* Python floats that hold quotients are kept exact, as reduced fractions
\* num/den with den > 0.
Rat(n, d) ==
    LET g == GCD(Abs(n), Abs(d))
        sgn == IF d < 0 THEN -1 ELSE 1
    IN  [num |-> sgn * (n \div g), den |-> Abs(d) \div g]

RatOfInt(n) == [num |-> n, den |-> 1]

RatAbs(q) == [num |-> Abs(q.num), den |-> q.den]

RatLess(p, q) == p.num * q.den < q.num * p.den

RatLeq(p, q) == p.num * q.den <= q.num * p.den

-----------------------------------------------------------------------------
(***************************************************************************)
(* Gap arithmetic (core/gap_analyzer.py)                                   *)
(***************************************************************************)
\* Mutant of _calculate_severity: the warning band starts above 5.
_calculate_severity_StrictWarning(percentage_gap) ==
    LET abs_gap == RatAbs(percentage_gap)
    IN  IF RatLeq(abs_gap, RatOfInt(5)) THEN "normal"
        ELSE IF RatLess(abs_gap, RatOfInt(15)) THEN "warning"
        ELSE "critical"

\* Mutant of _calculate_severity: the sign is not dropped.
_calculate_severity_Signed(percentage_gap) ==
    IF RatLess(percentage_gap, RatOfInt(5)) THEN "normal"
    ELSE IF RatLess(percentage_gap, RatOfInt(15)) THEN "warning"
    ELSE "critical"

\* GapAnalyzer._calculate_severity
_calculate_severity(percentage_gap) ==
    LET abs_gap == RatAbs(percentage_gap)
    IN  IF RatLess(abs_gap, RatOfInt(5)) THEN "normal"
        ELSE IF RatLess(abs_gap, RatOfInt(15)) THEN "warning"
        ELSE "critical"

\* n * sum(x^2) - sum(x)^2 of a series of numbers: n*(n-1) times its sample
\* variance (pandas var/std use ddof=1).
ScaledVariance(xs) ==
    Len(xs) * SumSeq([i \in DOMAIN xs |-> xs[i] * xs[i]]) - SumSeq(xs) * SumSeq(xs)

\* series.std() > 0 (std of fewer than two values is NaN, and NaN > 0 is False)
StdPositive(xs) == Len(xs) >= 2 /\ ScaledVariance(xs) > 0

\* GapAnalyzer._calculate_severity_from_diff, on the non-null values all_diffs.
\* z < k is decided exactly:  |v|/std < k  <=>  v^2 * n(n-1) < k^2 * (n*var*(n-1)).
_calculate_severity_from_diff(diff_value, all_diffs) ==
    LET n  == Len(all_diffs)
        sv == ScaledVariance(all_diffs)
        v2 == diff_value * diff_value * n * (n - 1)
    IN  IF n >= 2 /\ sv = 0 THEN "normal"
        ELSE IF n >= 2 /\ v2 < sv THEN "normal"
        ELSE IF n >= 2 /\ v2 < 4 * sv THEN "warning"
        ELSE "critical"

\* Mutant of GapDirection: the sign test is inverted.
GapDirection_Inverted(percentage_gap, plan_value, actual_value) ==
    IF RatLess(RatAbs(percentage_gap), RatOfInt(5)) THEN "on_target"
    ELSE IF actual_value > plan_value THEN "under"
    ELSE "over"

\* GapAnalyzer._create_gap, "Determine direction"
GapDirection(percentage_gap, plan_value, actual_value) ==
    IF RatLess(RatAbs(percentage_gap), RatOfInt(5)) THEN "on_target"
    ELSE IF actual_value < plan_value THEN "under"
    ELSE "over"

\* GapAnalyzer._create_gap, percentage_gap
PercentageGap(plan_value, actual_value) ==
    IF plan_value # 0
    THEN Rat((actual_value - plan_value) * 100, plan_value)
    ELSE IF actual_value # 0 THEN RatOfInt(100) ELSE RatOfInt(0)

\* _create_gap with the Plan keeping the row's value as its entity id
_create_gap_PlanKeepsValue(entity_val, metric_name, plan_value, actual_value, matches, plan_sheet) ==
    LET absolute_gap == actual_value - plan_value
        percentage_gap == PercentageGap(plan_value, actual_value)
        entity_id == IF matches # <<>> THEN matches[1] ELSE entity_val
    IN  [ plan   |-> [entity_id |-> entity_val, metric_name |-> metric_name,
                      target_value |-> plan_value, source_sheet |-> plan_sheet],
          actual |-> [entity_id |-> entity_id, metric_name |-> metric_name,
                      actual_value |-> actual_value, source_sheet |-> ""],
          gap    |-> [entity_id |-> entity_id, metric_name |-> metric_name,
                      plan_value |-> Some(plan_value),
                      actual_value |-> Some(actual_value),
                      absolute_gap |-> absolute_gap,
                      percentage_gap |-> percentage_gap,
                      direction |-> GapDirection(percentage_gap, plan_value, actual_value),
                      severity |-> _calculate_severity(percentage_gap)] ]

\* GapAnalyzer._create_gap: the Gap, Plan and Actual it builds.  matches is
\* the list entity_detector.find_entities_by_value(entity_val) returned.
_create_gap(entity_val, metric_name, plan_value, actual_value, matches, plan_sheet) ==
    LET absolute_gap == actual_value - plan_value
        percentage_gap == PercentageGap(plan_value, actual_value)
        direction == GapDirection(percentage_gap, plan_value, actual_value)
        severity == _calculate_severity(percentage_gap)
        entity_id == IF matches # <<>> THEN matches[1] ELSE entity_val
    IN  [ plan   |-> [entity_id |-> entity_id, metric_name |-> metric_name,
                      target_value |-> plan_value, source_sheet |-> plan_sheet],
          actual |-> [entity_id |-> entity_id, metric_name |-> metric_name,
                      actual_value |-> actual_value, source_sheet |-> ""],
          gap    |-> [entity_id |-> entity_id, metric_name |-> metric_name,
                      plan_value |-> Some(plan_value),
                      actual_value |-> Some(actual_value),
                      absolute_gap |-> absolute_gap,
                      percentage_gap |-> percentage_gap,
                      direction |-> direction,
                      severity |-> severity] ]

\* The Gap built by _analyze_difference_columns for one value of a
\* difference column.
DifferenceGap(entity_val, col, val, series) ==
    [ entity_id |-> entity_val, metric_name |-> col,
      plan_value |-> Nothing, actual_value |-> Nothing,
      absolute_gap |-> val,
      percentage_gap |-> RatOfInt(0),
      direction |-> IF val < 0 THEN "under" ELSE "over",
      severity |-> _calculate_severity_from_diff(val, series) ]

\* _analyze_difference_columns: "has negatives, centered around 0".
\* abs(mean) < 0.5 * std  <=>  4 * sum^2 * (n-1) < n * (n*sum(x^2) - sum^2).
IsDifferenceColumn(series) ==
    LET n == Len(series)
        has_negatives == \E i \in DOMAIN series : series[i] < 0
        near_zero_mean ==
            IF StdPositive(series)
            THEN 4 * SumSeq(series) * SumSeq(series) * (n - 1)
                    < n * ScaledVariance(series)
            ELSE FALSE
    IN  series # <<>> /\ has_negatives /\ near_zero_mean

\* ---- DataFrames ----
\* A DataFrame: index labels, column names in order, the dtype of each column
\* ("object", "int64", "float64" or "datetime64") and per column one cell per
\* row.  A cell is Nothing (NaN / None / NaT) or Some(value); numeric values
\* are integers (a float64 column holds integers and NaN), text values are
\* strings, datetime values are whole days counted from the moment of the
\* analysis (pd.Timestamp.now()).
NonNullRows(df, col) == {i \in DOMAIN df.index : df.data[col][i] # Nothing}

\* df[col].dropna(), the values in row order
RECURSIVE DropNaFrom(_, _, _)
DropNaFrom(df, col, i) ==
    IF i > Len(df.index) THEN <<>>
    ELSE IF df.data[col][i] = Nothing THEN DropNaFrom(df, col, i + 1)
    ELSE <<The(df.data[col][i])>> \o DropNaFrom(df, col, i + 1)

DropNa(df, col) == DropNaFrom(df, col, 1)

\* df.select_dtypes(include=[np.number]).columns, in column order
IsNumericDtype(df, col) == df.dtype[col] \in {"int64", "float64"}

NumericColumns(df) ==
    SelectSeq(df.columns, LAMBDA c : IsNumericDtype(df, c))

\* str(Timestamp): 19 characters with "-" and ":" in them.  The day offset
\* stands where the date would; the length and the character classes are
\* those of "YYYY-MM-DD HH:MM:SS".
DateStr(v) ==
    LET digits == ToString(Abs(v))
        padded == CASE Len(digits) = 1 -> "000" \o digits
                    [] Len(digits) = 2 -> "00" \o digits
                    [] Len(digits) = 3 -> "0" \o digits
                    [] OTHER -> digits
    IN  "0000-00-00 00:" \o (IF v < 0 THEN "-" ELSE "+") \o padded

\* str(value) of a non-null value of a column of the given dtype: text as it
\* is, an int64 as digits, a float64 as digits.0, a datetime as its timestamp.
StrOfValue(dtype, v) ==
    CASE dtype = "object" -> v
      [] dtype = "int64" -> ToString(v)
      [] dtype = "float64" -> ToString(v) \o ".0"
      [] OTHER -> DateStr(v)

\* str(value) of a cell; NaN is "nan"
StrOfCell(df, col, i) ==
    LET cell == df.data[col][i]
    IN  IF cell = Nothing THEN "nan"
        ELSE StrOfValue(df.dtype[col], The(cell))

\* f"row_{idx}"
RowLabel(idx) == "row_" \o ToString(idx)

\* ---- EntityDetector queries (core/entity_detector.py) ----
\* The detector's state is a record: entities (the Entity records in insertion
\* order, the dict's values), column_to_entity (<<sheet, column>> -> entity id)
\* and value_index (value -> set of entity ids).  Entity ids are uuid4
\* strings; the model writes them "e1", "e2", ...
NewEntityDetector ==
    [ entities |-> <<>>, column_to_entity |-> <<>>, value_index |-> <<>> ]

\* self.entities.get(entity_id)
EntityById(entities, entity_id) ==
    LET hits == {k \in DOMAIN entities : entities[k].id = entity_id}
    IN  IF hits = {} THEN Nothing ELSE Some(entities[CHOOSE k \in hits : TRUE])

\* EntityDetector.get_entity_for_column: the optional Entity of a column.
get_entity_for_column(det, sheet_name, column_name) ==
    IF <<sheet_name, column_name>> \in DOMAIN det.column_to_entity
    THEN EntityById(det.entities, det.column_to_entity[<<sheet_name, column_name>>])
    ELSE Nothing

\* The first column of the sheet whose entity exists (and is primary, when
\* primary_only), or Nothing.
FirstEntityColumn(df, det, sheet_name, primary_only) ==
    LET hits == {k \in DOMAIN df.columns :
                    LET e == get_entity_for_column(det, sheet_name, df.columns[k])
                    IN  e # Nothing /\ (primary_only => The(e).is_primary)}
    IN  IF hits = {} THEN Nothing
        ELSE Some(df.columns[CHOOSE k \in hits : \A j \in hits : k <= j])

\* The gaps _analyze_difference_columns appends for one numeric column.
RECURSIVE DifferenceGapsFrom(_, _, _, _, _)
DifferenceGapsFrom(df, col, series, entity_col, i) ==
    IF i > Len(df.index) THEN <<>>
    ELSE LET cell == df.data[col][i]
             rest == DifferenceGapsFrom(df, col, series, entity_col, i + 1)
         IN  IF cell = Nothing \/ The(cell) = 0 THEN rest
             ELSE LET entity_val ==
                          IF entity_col # Nothing
                          THEN StrOfCell(df, The(entity_col), i)
                          ELSE RowLabel(df.index[i])
                  IN  <<DifferenceGap(entity_val, col, The(cell), series)>> \o rest

RECURSIVE DifferenceColumnsFrom(_, _, _, _)
DifferenceColumnsFrom(df, cols, entity_col, k) ==
    IF k > Len(cols) THEN <<>>
    ELSE LET series == DropNa(df, cols[k])
         IN  (IF IsDifferenceColumn(series)
              THEN DifferenceGapsFrom(df, cols[k], series, entity_col, 1)
              ELSE <<>>)
             \o DifferenceColumnsFrom(df, cols, entity_col, k + 1)

\* GapAnalyzer._analyze_difference_columns: the gaps it appends to self.gaps.
_analyze_difference_columns(df, sheet_name, det) ==
    DifferenceColumnsFrom(df, NumericColumns(df),
                          FirstEntityColumn(df, det, sheet_name, FALSE), 1)

\* ---- One call of a gap function on arguments from bounded sets ----
MaxPctNum == 40
MaxPctDen == 2
MaxVal == 25
MaxSeriesLen == 3
MaxDiff == 2

SeverityInputs == {Rat(n, d) : n \in -MaxPctNum..MaxPctNum, d \in 1..MaxPctDen}

GapValues == -MaxVal..MaxVal

DiffSeries == UNION {[1..n -> -MaxDiff..MaxDiff] : n \in 1..MaxSeriesLen}

\* A sheet holding one numeric column "Variance" and no entity column.
DiffFrame(series) ==
    [ index |-> [i \in DOMAIN series |-> i - 1],
      columns |-> <<"Variance">>,
      dtype |-> [c \in {"Variance"} |-> "int64"],
      data |-> [c \in {"Variance"} |-> [i \in DOMAIN series |-> Some(series[i])]] ]

GapCalls ==
    {[fn |-> "_calculate_severity", percentage_gap |-> g] : g \in SeverityInputs}
    \cup {[fn |-> "_create_gap", plan_value |-> p, actual_value |-> a] :
              p \in GapValues, a \in GapValues}
    \cup {[fn |-> "_analyze_difference_columns", df |-> DiffFrame(xs)] :
              xs \in DiffSeries}

GapFnIdle == gcall = [fn |-> None] /\ gret = Nothing

GapFnInit == gcall \in GapCalls /\ gret = Nothing

CallCalculateSeverity ==
    /\ gret = Nothing
    /\ gcall.fn = "_calculate_severity"
    /\ gret' = Some(_calculate_severity(gcall.percentage_gap))
    /\ UNCHANGED gcall
    /\ UNCHANGED nonGapFnVars

CallCreateGap ==
    /\ gret = Nothing
    /\ gcall.fn = "_create_gap"
    /\ gret' = Some(_create_gap("row_0", "Target", gcall.plan_value,
                                gcall.actual_value, <<>>, "Sheet1"))
    /\ UNCHANGED gcall
    /\ UNCHANGED nonGapFnVars

CallAnalyzeDifferenceColumns ==
    /\ gret = Nothing
    /\ gcall.fn = "_analyze_difference_columns"
    /\ gret' = Some(_analyze_difference_columns(gcall.df, "Sheet1", NewEntityDetector))
    /\ UNCHANGED gcall
    /\ UNCHANGED nonGapFnVars

NextGapFn ==
    \/ CallCalculateSeverity
    \/ CallCreateGap
    \/ CallAnalyzeDifferenceColumns

\* ---- Text functions ----
\* The string functions of the code (strip, lower, regular expressions, sort
\* order) are tabulated on the strings the workbooks below hold: each table
\* lists the function's value on those strings and is undefined elsewhere.

\* _detect_pattern: the patterns re.match finds at the start of str(v)
MatchedPatterns(v) ==
    CASE v \in {
              "North", "South", "East", "Alpha", "Bravo", "Delta", "Gamma",
              "Active", "Install", "Testing", "Handover", "Alice", "Bruno",
              "Carla", "David", "Elena", "Frank", "West", "Central",
              "Blocked", "Web", "Fax", "Shop", "Nord", "Mitt", "Stad",
              "Alfa", "Beta", "Gama", "Delt", "Zeta", "Iota", "Kapa",
              "Wiring", "Fitting", "Roofing"}
          -> {"alpha", "alphanumeric", "with_spaces", "mixed"}
      [] v \in {
              "0000-00-00 00:+0090", "100.0", "80.0", "60.0", "0.0", "1.0",
              "2.0", "0000-00-00 00:-0060", "70.0", "90.0", "10.0", "20.0",
              "30.0", "50.0", "-2", "-2.0",
              "Delivery delayed by 3 weeks, requires vendor approval first",
              "not enough installers on site, 4 short for the final stage now",
              "Completed as planned and signed off by the client on 12/01/2025",
              "5.0", "7.0", "9.0", "230.0", "240.0", "250.0", "101.0"}
          -> {"mixed"}
      [] v \in {
              "100", "80", "60", "0", "1", "2", "70", "90", "10", "20", "30",
              "50", "5", "7", "9", "230", "240", "250", "101"}
          -> {"numeric", "alphanumeric", "with_spaces", "mixed"}
      [] v \in {
              "Central Warehouse 12", "Regional Depot West 7",
              "Harbour Office Block 3", "Airport Logistics Hub 5",
              "Not started",
              "Two installers left the crew so we are 4 short for the final stage of work",
              "Materials arrived on site and were checked by the supervisor on arrival",
              "Work went as planned and was signed off by the client representative"}
          -> {"with_spaces", "mixed"}
      [] v \in {
              "P01", "P02", "P03", "P04", "P05", "P06", "P07", "P08", "P09",
              "P10", "P11", "P12", "P13", "P14", "P15", "P16", "P17", "P18",
              "P19", "P20", "P21"}
          -> {"alphanumeric", "with_spaces", "mixed"}
      [] v \in {
              "AB12", "CD34", "EF56", "GH78"}
          -> {"alphanumeric", "with_spaces", "code_like", "mixed"}

\* The text values in the order sorted() / pd.merge(sort) puts them
SortedTexts ==
    <<
      "AB12", "Active", "Airport Logistics Hub 5", "Alfa", "Alice", "Alpha",
      "Beta", "Blocked", "Bravo", "Bruno", "CD34", "Carla", "Central",
      "Central Warehouse 12",
      "Completed as planned and signed off by the client on 12/01/2025",
      "David", "Delivery delayed by 3 weeks, requires vendor approval first",
      "Delt", "Delta", "EF56", "East", "Elena", "Fax", "Fitting", "Frank",
      "GH78", "Gama", "Gamma", "Handover", "Harbour Office Block 3",
      "Install", "Iota", "Kapa",
      "Materials arrived on site and were checked by the supervisor on arrival",
      "Mitt", "Nord", "North", "Not started", "P01", "P02", "P03", "P04",
      "P05", "P06", "P07", "P08", "P09", "P10", "P11", "P12", "P13", "P14",
      "P15", "P16", "P17", "P18", "P19", "P20", "P21",
      "Regional Depot West 7", "Roofing", "Shop", "South", "Stad", "Testing",
      "Two installers left the crew so we are 4 short for the final stage of work",
      "Web", "West", "Wiring",
      "Work went as planned and was signed off by the client representative",
      "Zeta",
      "not enough installers on site, 4 short for the final stage now">>

SortRank(v) == CHOOSE k \in DOMAIN SortedTexts : SortedTexts[k] = v

\* The rank of a null key: after every value
SortRankLast == Len(SortedTexts) + 1000000

\* str(v).strip(): the text cells carry no surrounding blanks
Strip(text) == text

\* str(v).strip().lower()
StripLower(text) ==
    CASE text = "North" -> "north"
      [] text = "South" -> "south"
      [] text = "East" -> "east"
      [] text = "Central Warehouse 12" -> "central warehouse 12"
      [] text = "Regional Depot West 7" -> "regional depot west 7"
      [] text = "Harbour Office Block 3" -> "harbour office block 3"
      [] text = "Airport Logistics Hub 5" -> "airport logistics hub 5"
      [] text = "Alpha" -> "alpha"
      [] text = "Bravo" -> "bravo"
      [] text = "Delta" -> "delta"
      [] text = "Gamma" -> "gamma"
      [] text = "P01" -> "p01"
      [] text = "P02" -> "p02"
      [] text = "P03" -> "p03"
      [] text = "P04" -> "p04"
      [] text = "P05" -> "p05"
      [] text = "P06" -> "p06"
      [] text = "P07" -> "p07"
      [] text = "P08" -> "p08"
      [] text = "P09" -> "p09"
      [] text = "P10" -> "p10"
      [] text = "P11" -> "p11"
      [] text = "P12" -> "p12"
      [] text = "P13" -> "p13"
      [] text = "P14" -> "p14"
      [] text = "P15" -> "p15"
      [] text = "P16" -> "p16"
      [] text = "P17" -> "p17"
      [] text = "P18" -> "p18"
      [] text = "P19" -> "p19"
      [] text = "P20" -> "p20"
      [] text = "P21" -> "p21"
      [] text = "Active" -> "active"
      [] text = "Not started" -> "not started"
      [] text = "Install" -> "install"
      [] text = "Testing" -> "testing"
      [] text = "Handover" -> "handover"
      [] text = "Delivery delayed by 3 weeks, requires vendor approval first" -> "delivery delayed by 3 weeks, requires vendor approval first"
      [] text = "Completed as planned and signed off by the client on 12/01/2025" -> "completed as planned and signed off by the client on 12/01/2025"
      [] text = "Alice" -> "alice"
      [] text = "Bruno" -> "bruno"
      [] text = "Carla" -> "carla"
      [] text = "David" -> "david"
      [] text = "Elena" -> "elena"
      [] text = "Frank" -> "frank"
      [] text = "West" -> "west"
      [] text = "Central" -> "central"
      [] text = "Blocked" -> "blocked"
      [] text = "Web" -> "web"
      [] text = "Fax" -> "fax"
      [] text = "Shop" -> "shop"
      [] text = "AB12" -> "ab12"
      [] text = "CD34" -> "cd34"
      [] text = "EF56" -> "ef56"
      [] text = "GH78" -> "gh78"
      [] text = "Nord" -> "nord"
      [] text = "Mitt" -> "mitt"
      [] text = "Stad" -> "stad"
      [] text = "Alfa" -> "alfa"
      [] text = "Beta" -> "beta"
      [] text = "Gama" -> "gama"
      [] text = "Delt" -> "delt"
      [] text = "Zeta" -> "zeta"
      [] text = "Iota" -> "iota"
      [] text = "Kapa" -> "kapa"
      [] text = "Wiring" -> "wiring"
      [] text = "Fitting" -> "fitting"
      [] text = "Roofing" -> "roofing"
      [] text = "Two installers left the crew so we are 4 short for the final stage of work" -> "two installers left the crew so we are 4 short for the final stage of work"
      [] text = "Materials arrived on site and were checked by the supervisor on arrival" -> "materials arrived on site and were checked by the supervisor on arrival"
      [] text = "Work went as planned and was signed off by the client representative" -> "work went as planned and was signed off by the client representative"
      [] OTHER -> text

\* ConstraintExtractor._has_negation_pattern, on lowered text
_has_negation_pattern(text) ==
    text \in {
              "not started",
              "not enough installers on site, 4 short for the final stage now"}

\* ConstraintExtractor._has_process_pattern, on lowered text
_has_process_pattern(text) ==
    text \in {
              "testing", "wiring", "fitting", "roofing"}

\* ConstraintExtractor._analyze_remark_text: the TextPatterns found, each with
\* matched_text[:100] and its confidence in tenths
_analyze_remark_text(text) ==
    CASE text = "Not started"
          -> << [ pattern_type |-> "blocking", matched_text |-> "Not started",
               confidence |-> 6 ] >>
      [] text = "Delivery delayed by 3 weeks, requires vendor approval first"
          -> << [ pattern_type |-> "capacity", matched_text |-> "3 weeks",
               confidence |-> 7 ],
             [ pattern_type |-> "dependency", matched_text |-> "Delivery delayed by 3 weeks, requires vendor approval first",
               confidence |-> 5 ] >>
      [] text = "not enough installers on site, 4 short for the final stage now"
          -> << [ pattern_type |-> "blocking", matched_text |-> "not enough installers on site, 4 short for the final stage now",
               confidence |-> 6 ],
             [ pattern_type |-> "resource", matched_text |-> "4 short",
               confidence |-> 7 ] >>
      [] text = "Completed as planned and signed off by the client on 12/01/2025"
          -> << [ pattern_type |-> "deadline", matched_text |-> "12/01/2025",
               confidence |-> 6 ] >>
      [] text = "Two installers left the crew so we are 4 short for the final stage of work"
          -> << [ pattern_type |-> "resource", matched_text |-> "4 short",
               confidence |-> 7 ] >>
      [] OTHER -> <<>>

-----------------------------------------------------------------------------
(***************************************************************************)
(* Workbook normalisation (core/decision_engine.py, _normalize_datasets)   *)
(***************************************************************************)
\* A workbook as it is handed to analyze(): its sheets in order, each a name
\* and a frame.  A frame as read from the file has index labels 0..n-1 and
\* columns in order, each a header, a dtype and one cell per row (headers may
\* repeat, so the columns are kept by position).

\* The elements of s at the positions in keep, in order.
RECURSIVE KeptFrom(_, _, _)
KeptFrom(s, keep, i) ==
    IF i > Len(s) THEN <<>>
    ELSE (IF i \in keep THEN <<s[i]>> ELSE <<>>) \o KeptFrom(s, keep, i + 1)

Kept(s, keep) == KeptFrom(s, keep, 1)

\* str(c).strip() on the headers the workbooks use
StripName(c) ==
    CASE c = " Region " -> "Region"
      [] c = "Target " -> "Target"
      [] c = " Cost" -> "Cost"
      [] OTHER -> c

\* c.startswith('Unnamed:') on the headers the workbooks use
IsUnnamed(c) == c \in {"Unnamed: 0", "Unnamed: 1"}

\* df.empty: no rows or no columns
RawEmpty(index, cols) == Len(index) = 0 \/ Len(cols) = 0

\* cols[cols.duplicated()].unique(): the headers that occur again, in the
\* order of their first repetition
RECURSIVE DuplicatedFrom(_, _, _)
DuplicatedFrom(names, k, found) ==
    IF k > Len(names) THEN found
    ELSE IF (\E j \in 1..(k - 1) : names[j] = names[k])
            /\ names[k] \notin Range(found)
         THEN DuplicatedFrom(names, k + 1, Append(found, names[k]))
         ELSE DuplicatedFrom(names, k + 1, found)

\* cols[cols == dup] = [f"{dup}_{i}" for i in range(...)]
RenameDuplicate(names, dup) ==
    [k \in DOMAIN names |->
        IF names[k] = dup
        THEN dup \o "_" \o ToString(Cardinality({j \in 1..(k - 1) : names[j] = dup}))
        ELSE names[k]]

\* "Handle duplicate column names": one renaming per duplicated header, each
\* on the headers the previous one left.
RECURSIVE RenameDuplicates(_, _)
RenameDuplicates(names, dups) ==
    IF dups = <<>> THEN names
    ELSE RenameDuplicates(RenameDuplicate(names, Head(dups)), Tail(dups))

\* The normalized DataFrame of one sheet, or Nothing when the sheet is
\* skipped.  The normalized frame is kept by column name.
NormalizeFrame(raw) ==
    LET stripped == [k \in DOMAIN raw.cols |->
                        [raw.cols[k] EXCEPT !.name = StripName(@)]]
        named    == SelectSeq(stripped, LAMBDA c : ~IsUnnamed(c.name))
        rows     == {i \in DOMAIN raw.index :
                        \E k \in DOMAIN named : named[k].cells[i] # Nothing}
        cols     == SelectSeq(named, LAMBDA c :
                        \E i \in rows : c.cells[i] # Nothing)
        names    == RenameDuplicates([k \in DOMAIN cols |-> cols[k].name],
                        DuplicatedFrom([k \in DOMAIN cols |-> cols[k].name], 1, <<>>))
        pos(c)   == CHOOSE k \in DOMAIN names : names[k] = c
    IN  IF RawEmpty(raw.index, raw.cols) THEN Nothing
        ELSE IF RawEmpty(raw.index, named) THEN Nothing
        ELSE IF RawEmpty(Kept(raw.index, rows), cols) THEN Nothing
        ELSE Some([ index   |-> Kept(raw.index, rows),
                    columns |-> names,
                    dtype   |-> [c \in Range(names) |-> cols[pos(c)].dtype],
                    data    |-> [c \in Range(names) |->
                                    Kept(cols[pos(c)].cells, rows)] ])

\* DecisionIntelligenceEngine._normalize_datasets: the sheets that are kept,
\* in order, each with its normalized DataFrame.
RECURSIVE _normalize_datasets(_)
_normalize_datasets(datasets) ==
    IF datasets = <<>> THEN <<>>
    ELSE LET df == NormalizeFrame(Head(datasets).df)
         IN  (IF df = Nothing THEN <<>>
              ELSE <<[name |-> Head(datasets).name, df |-> The(df)]>>)
             \o _normalize_datasets(Tail(datasets))

\* datasets[sheet_name] of a normalized workbook
SheetNames(datasets) == [k \in DOMAIN datasets |-> datasets[k].name]

FrameOf(datasets, sheet_name) ==
    datasets[CHOOSE k \in DOMAIN datasets : datasets[k].name = sheet_name].df

-----------------------------------------------------------------------------
(***************************************************************************)
(* Sheet classification (core/sheet_classifier.py)                         *)
(***************************************************************************)
RatAdd(p, q) == Rat(p.num * q.den + q.num * p.den, p.den * q.den)

RECURSIVE RatSum(_)
RatSum(qs) == IF qs = <<>> THEN RatOfInt(0) ELSE RatAdd(Head(qs), RatSum(Tail(qs)))

MinOf(xs) == CHOOSE x \in Range(xs) : \A y \in Range(xs) : x <= y

MaxOf(xs) == CHOOSE x \in Range(xs) : \A y \in Range(xs) : x >= y

\* series.nunique(): the number of distinct non-null values
NUnique(df, col) == Cardinality(Range(DropNa(df, col)))

\* SheetClassifier._is_temporal.  The text branch parses the values as dates;
\* no text value of the workbooks modelled here parses as one.
_is_temporal(df, col) == df.dtype[col] = "datetime64"

\* SheetClassifier._classify_numeric, on the non-null values xs (integers).
\* str(x) of an int64 has no decimal point and of a float64 holding an
\* integer has one decimal place.
_classify_numeric(dtype, xs) ==
    LET n == Len(xs)
        min_val == MinOf(xs)
        max_val == MaxOf(xs)
        mean_below_50 == SumSeq(xs) < 50 * n
        std_below_30  == n >= 2 /\ ScaledVariance(xs) < 900 * n * (n - 1)
        decimal_places == IF dtype = "int64" THEN 0 ELSE 1
        unique_ratio == Rat(Cardinality(Range(xs)), n)
        all_integers == TRUE
    IN  IF 0 <= min_val /\ max_val <= 1 THEN "percentage"
        ELSE IF 0 <= min_val /\ max_val <= 100 /\ mean_below_50 /\ std_below_30
             THEN "percentage"
        ELSE IF min_val >= 0 /\ decimal_places = 2 /\ max_val > 100 THEN "currency"
        ELSE IF RatLess(Rat(9, 10), unique_ratio) /\ all_integers THEN "entity_id"
        ELSE IF all_integers /\ min_val >= 0 THEN "quantity"
        ELSE "metric"

\* SheetClassifier._classify_text, on the non-null values as strings
_classify_text(strs) ==
    LET n == Len(strs)
        nunique == Cardinality(Range(strs))
        unique_ratio == Rat(nunique, n)
        total_length == SumSeq([i \in DOMAIN strs |-> Len(strs[i])])
    IN  IF RatLess(Rat(8, 10), unique_ratio)
           /\ 3 * n < total_length /\ total_length < 50 * n
        THEN "entity_name"
        ELSE IF RatLess(unique_ratio, Rat(1, 10))
             THEN (IF nunique < 10 THEN "status" ELSE "dimension")
        ELSE IF total_length > 50 * n THEN "remark"
        ELSE IF RatLess(unique_ratio, Rat(1, 2)) THEN "dimension"
        ELSE "entity_name"

\* SheetClassifier._infer_semantic_type
_infer_semantic_type(df, col) ==
    IF DropNa(df, col) = <<>> THEN "unknown"
    ELSE IF _is_temporal(df, col) THEN "temporal"
    ELSE IF IsNumericDtype(df, col) THEN _classify_numeric(df.dtype[col], DropNa(df, col))
    ELSE IF df.dtype[col] = "object" THEN _classify_text(DropNa(df, col))
    ELSE "unknown"

\* SheetClassifier._analyze_column
_analyze_column(df, col) ==
    LET non_null == DropNa(df, col)
        unique_ratio == IF non_null # <<>> THEN Rat(NUnique(df, col), Len(non_null))
                        ELSE RatOfInt(0)
    IN  [ name |-> col,
          dtype |-> df.dtype[col],
          unique_count |-> NUnique(df, col),
          unique_ratio |-> unique_ratio,
          semantic_type |-> _infer_semantic_type(df, col),
          is_potential_key |-> non_null # <<>> /\ RatLess(Rat(9, 10), unique_ratio),
          statistical_profile |->
              IF non_null # <<>> /\ IsNumericDtype(df, col)
              THEN Some([ min |-> MinOf(non_null), max |-> MaxOf(non_null),
                          has_negatives |-> \E i \in DOMAIN non_null : non_null[i] < 0 ])
              ELSE Nothing ]

NumericSemanticTypes == {"quantity", "currency", "percentage", "metric"}

TextSemanticTypes == {"entity_name", "remark", "status"}

\* "Check if last row is sum of others", for one numeric column
LastIsSumOfOthers(values) ==
    LET potential_sum == SumSeq(SubSeq(values, 1, Len(values) - 1))
        last_val == values[Len(values)]
    IN  IF last_val # 0
        THEN 100 * Abs(potential_sum - last_val) < Abs(last_val)
        ELSE potential_sum = 0

\* SheetClassifier._detect_aggregations
_detect_aggregations(df, column_profiles) ==
    LET numeric_cols == SelectSeq(column_profiles, LAMBDA p :
                            p.semantic_type \in {"quantity", "currency", "metric"})
        numbers == NumericColumns(df)
    IN  IF Len(df.index) < 3 THEN FALSE
        ELSE IF Len(df.index) < 20 /\ 2 * Len(numeric_cols) > Len(column_profiles)
             THEN TRUE
        ELSE \E k \in DOMAIN numbers :
                LET values == DropNa(df, numbers[k])
                IN  Len(values) >= 3 /\ LastIsSumOfOthers(values)

\* "Similar range suggests comparison columns", for two statistical profiles.
\* stats.get('min') is falsy when the minimum is 0.
SimilarRanges(stats1, stats2) ==
    LET range1 == stats1.max - stats1.min
        range2 == stats2.max - stats2.min
    IN  /\ stats1.min # 0 /\ stats2.min # 0
        /\ range1 > 0 /\ range2 > 0
        /\ 2 * Min(range1, range2) > Max(range1, range2)

\* SheetClassifier._detect_comparisons
_detect_comparisons(column_profiles) ==
    LET numeric_profiles == SelectSeq(column_profiles, LAMBDA p :
                                p.semantic_type \in NumericSemanticTypes)
    IN  IF Len(numeric_profiles) < 2 THEN FALSE
        ELSE \/ \E i \in DOMAIN numeric_profiles :
                  \E j \in (i + 1)..Len(numeric_profiles) :
                      SimilarRanges(The(numeric_profiles[i].statistical_profile),
                                    The(numeric_profiles[j].statistical_profile))
             \/ \E k \in DOMAIN column_profiles :
                  /\ column_profiles[k].statistical_profile # Nothing
                  /\ The(column_profiles[k].statistical_profile).has_negatives

\* The coverage one temporal column decides, or Nothing when the loop goes on
\* to the next column.  Dates are days from now.
CoverageOfColumn(dates) ==
    IF dates = <<>> THEN Nothing
    ELSE IF MaxOf(dates) > 30
         THEN (IF MinOf(dates) < 0 THEN Some("mixed") ELSE Some("future"))
    ELSE IF MinOf(dates) < -30 THEN Some("past")
    ELSE Nothing

RECURSIVE CoverageFrom(_, _, _)
CoverageFrom(df, temporal_cols, k) ==
    IF k > Len(temporal_cols) THEN "none"
    ELSE LET c == CoverageOfColumn(DropNa(df, temporal_cols[k]))
         IN  IF c # Nothing THEN The(c) ELSE CoverageFrom(df, temporal_cols, k + 1)

\* SheetClassifier._detect_temporal_coverage
_detect_temporal_coverage(df, column_profiles) ==
    LET temporal == SelectSeq(column_profiles, LAMBDA p : p.semantic_type = "temporal")
    IN  CoverageFrom(df, [k \in DOMAIN temporal |-> temporal[k].name], 1)

\* The roles in the order of the scores dict of _infer_role
RoleOrder == <<"master", "transactional", "plan", "actual", "summary", "comparison">>

\* SheetClassifier._infer_role: <<role, confidence>>.  The scores are sums of
\* tenths and are kept as integers (tenths).
_infer_role(row_count, numeric_col_ratio, text_col_ratio, temporal_cols, unique_ratio_avg, has_aggregations, has_comparisons, temporal_coverage, column_profiles) ==
    LET B(cond, points) == IF cond THEN points ELSE 0
        numeric_heavy == RatLess(Rat(1, 2), numeric_col_ratio)
        scores == [ r \in Range(RoleOrder) |->
            CASE r = "master" ->
                    B(RatLess(Rat(4, 10), text_col_ratio)
                        /\ RatLess(Rat(6, 10), unique_ratio_avg)
                        /\ temporal_cols = 0, 4)
                    + B(\E k \in DOMAIN column_profiles :
                            column_profiles[k].is_potential_key, 2)
              [] r = "transactional" ->
                    B(temporal_cols > 0 /\ row_count > 20, 3)
                    + B(temporal_coverage = "past", 2)
              [] r = "plan" ->
                    B(temporal_coverage = "future", 5)
                    + B(temporal_coverage = "mixed" /\ numeric_heavy, 3)
              [] r = "actual" ->
                    B(temporal_coverage = "past" /\ numeric_heavy, 4)
              [] r = "summary" ->
                    B(has_aggregations, 4)
                    + B(row_count < 20 /\ RatLess(Rat(6, 10), numeric_col_ratio), 2)
              [] OTHER ->
                    B(has_comparisons, 5) ]
        \* max(scores, key=scores.get): the first role with the highest score
        best == CHOOSE k \in DOMAIN RoleOrder :
                    /\ \A j \in DOMAIN RoleOrder : scores[RoleOrder[j]] <= scores[RoleOrder[k]]
                    /\ \A j \in 1..(k - 1) : scores[RoleOrder[j]] < scores[RoleOrder[k]]
        confidence == scores[RoleOrder[best]]
    IN  IF confidence < 2 THEN <<"unknown", confidence>>
        ELSE <<RoleOrder[best], Min(confidence, 10)>>

\* SheetClassifier._analyze_sheet.  The frames it is given are normalized: no
\* "Unnamed:" column, at least one row and one column.
_analyze_sheet(name, df) ==
    LET column_profiles == [k \in DOMAIN df.columns |-> _analyze_column(df, df.columns[k])]
        count(types) == Cardinality({k \in DOMAIN column_profiles :
                            column_profiles[k].semantic_type \in types})
        row_count == Len(df.index)
        col_count == Len(df.columns)
        numeric_col_ratio == Rat(count(NumericSemanticTypes), col_count)
        text_col_ratio == Rat(count(TextSemanticTypes), col_count)
        temporal_cols == count({"temporal"})
        unique_ratio_avg ==
            LET total == RatSum([k \in DOMAIN column_profiles |->
                                    column_profiles[k].unique_ratio])
            IN  Rat(total.num, total.den * col_count)
        has_aggregations == _detect_aggregations(df, column_profiles)
        has_comparisons == _detect_comparisons(column_profiles)
        temporal_coverage == _detect_temporal_coverage(df, column_profiles)
        role == _infer_role(row_count, numeric_col_ratio, text_col_ratio,
                            temporal_cols, unique_ratio_avg, has_aggregations,
                            has_comparisons, temporal_coverage, column_profiles)
    IN  [ name |-> name,
          row_count |-> row_count,
          col_count |-> col_count,
          numeric_col_ratio |-> numeric_col_ratio,
          temporal_col_count |-> temporal_cols,
          text_col_ratio |-> text_col_ratio,
          unique_ratio_avg |-> unique_ratio_avg,
          has_aggregations |-> has_aggregations,
          has_comparisons |-> has_comparisons,
          temporal_coverage |-> temporal_coverage,
          inferred_role |-> role[1],
          confidence |-> role[2],
          column_profiles |-> column_profiles ]

\* Mutant of _refine_classifications: an ACTUAL sheet does not stop the upgrade.
_refine_classifications_IgnoresActual(profiles) ==
    LET has(role) == \E k \in DOMAIN profiles : profiles[k].inferred_role = role
        transactional == {k \in DOMAIN profiles :
                            profiles[k].inferred_role = "transactional"}
        best == CHOOSE k \in transactional :
                    /\ \A j \in transactional :
                          profiles[j].confidence <= profiles[k].confidence
                    /\ \A j \in transactional :
                          j < k => profiles[j].confidence < profiles[k].confidence
    IN  IF has("plan") /\ transactional # {}
        THEN [profiles EXCEPT ![best].inferred_role = "actual"]
        ELSE profiles

\* SheetClassifier._refine_classifications: with a PLAN sheet and no ACTUAL
\* sheet, the first TRANSACTIONAL sheet of highest confidence becomes ACTUAL.
_refine_classifications(profiles) ==
    LET has(role) == \E k \in DOMAIN profiles : profiles[k].inferred_role = role
        transactional == {k \in DOMAIN profiles :
                            profiles[k].inferred_role = "transactional"}
        best == CHOOSE k \in transactional :
                    /\ \A j \in transactional :
                          profiles[j].confidence <= profiles[k].confidence
                    /\ \A j \in transactional :
                          j < k => profiles[j].confidence < profiles[k].confidence
    IN  IF has("plan") /\ ~has("actual") /\ transactional # {}
        THEN [profiles EXCEPT ![best].inferred_role = "actual"]
        ELSE profiles

\* SheetClassifier.classify_all_sheets: the profiles, in sheet order
classify_all_sheets(datasets) ==
    _refine_classifications(
        [k \in DOMAIN datasets |-> _analyze_sheet(datasets[k].name, datasets[k].df)])

\* sheet_profiles.get(sheet_name)
ProfileOf(sheet_profiles, sheet_name) ==
    sheet_profiles[CHOOSE k \in DOMAIN sheet_profiles :
                        sheet_profiles[k].name = sheet_name]

\* The semantic type the profile holds for a column (col_profile lookup)
SemanticTypeOf(profile, col) ==
    LET hits == {k \in DOMAIN profile.column_profiles :
                    profile.column_profiles[k].name = col}
    IN  IF hits = {} THEN Nothing
        ELSE Some(profile.column_profiles[CHOOSE k \in hits : TRUE].semantic_type)

-----------------------------------------------------------------------------
(***************************************************************************)
(* Entity detection (core/entity_detector.py)                              *)
(***************************************************************************)
\* non_null.astype(str): the non-null values of a column as strings, in row
\* order
StrValues(df, col) ==
    LET xs == DropNa(df, col)
    IN  [i \in DOMAIN xs |-> StrOfValue(df.dtype[col], xs[i])]

\* EntityDetector._is_entity_candidate
_is_entity_candidate(col_profile, df, col) ==
    LET unique_count == NUnique(df, col)
    IN  \/ col_profile.semantic_type \in {"entity_id", "entity_name"}
        \/ /\ col_profile.semantic_type = "dimension"
           /\ 2 <= unique_count
           /\ 10 * unique_count <= 8 * Len(df.index)
        \/ /\ RatLess(Rat(7, 10), col_profile.unique_ratio)
           /\ unique_count >= 2

\* The pattern names of _detect_pattern, in the order of its dict
PatternOrder == <<"numeric", "alpha", "alphanumeric", "with_spaces", "code_like", "mixed">>

\* EntityDetector._detect_pattern: the first pattern more than 80% of the
\* values match.  (The sample is the first 100 values of the set; the
\* workbooks here have fewer values per column.)
_detect_pattern(values) ==
    LET hits(p) == Cardinality({v \in values : p \in MatchedPatterns(v)})
        wins(k) == 10 * hits(PatternOrder[k]) > 8 * Cardinality(values)
        first == CHOOSE k \in DOMAIN PatternOrder :
                    wins(k) /\ \A j \in 1..(k - 1) : ~wins(j)
    IN  PatternOrder[first]

\* EntityDetector._create_candidate: the optional EntityCandidate of a column.
\* avg_length is kept as the total length and the number of values.
_create_candidate(col_name, sheet_name, df) ==
    LET str_values == StrValues(df, col_name)
        unique_values == Range(str_values)
    IN  IF str_values = <<>> \/ Cardinality(unique_values) < 2 THEN Nothing
        ELSE Some([ column_name |-> col_name,
                    sheet_name |-> sheet_name,
                    unique_values |-> unique_values,
                    cardinality |-> Cardinality(unique_values),
                    unique_ratio |-> Rat(Cardinality(unique_values), Len(str_values)),
                    value_pattern |-> _detect_pattern(unique_values),
                    total_length |-> SumSeq([i \in DOMAIN str_values |-> Len(str_values[i])]),
                    count |-> Len(str_values),
                    is_numeric_id |->
                        /\ IsNumericDtype(df, col_name)
                        /\ RatLess(Rat(9, 10), Rat(NUnique(df, col_name), Len(str_values))) ])

\* The candidates of one sheet, column by column
RECURSIVE CandidatesOfSheet(_, _, _, _)
CandidatesOfSheet(sheet_name, df, column_profiles, k) ==
    IF k > Len(column_profiles) THEN <<>>
    ELSE LET col_name == column_profiles[k].name
             candidate == IF _is_entity_candidate(column_profiles[k], df, col_name)
                          THEN _create_candidate(col_name, sheet_name, df)
                          ELSE Nothing
         IN  (IF candidate = Nothing THEN <<>> ELSE <<The(candidate)>>)
             \o CandidatesOfSheet(sheet_name, df, column_profiles, k + 1)

\* EntityDetector._find_candidates
RECURSIVE _find_candidates(_, _, _)
_find_candidates(datasets, sheet_profiles, k) ==
    IF k > Len(datasets) THEN <<>>
    ELSE CandidatesOfSheet(datasets[k].name, datasets[k].df,
                           ProfileOf(sheet_profiles, datasets[k].name).column_profiles, 1)
         \o _find_candidates(datasets, sheet_profiles, k + 1)

\* EntityDetector._calculate_similarity, as an exact fraction
_calculate_similarity(c1, c2) ==
    LET overlap == Cardinality(c1.unique_values \cap c2.unique_values)
        union == Cardinality(c1.unique_values \cup c2.unique_values)
        jaccard == Rat(overlap, union)
        pattern_match == IF c1.value_pattern = c2.value_pattern
                         THEN RatOfInt(1) ELSE Rat(3, 10)
        card_ratio == Rat(Min(c1.cardinality, c2.cardinality),
                          Max(c1.cardinality, c2.cardinality))
        \* avg_length = total_length / count, compared by cross-multiplication
        len1 == c1.total_length * c2.count
        len2 == c2.total_length * c1.count
        len_ratio == IF Max(len1, len2) > 0
                     THEN Rat(Min(len1, len2), Max(len1, len2)) ELSE RatOfInt(0)
        W(w, q) == Rat(w * q.num, 100 * q.den)
    IN  IF union = 0 THEN RatOfInt(0)
        ELSE RatSum(<<W(50, jaccard), W(20, pattern_match),
                      W(15, card_ratio), W(15, len_ratio)>>)

\* The clustering threshold (threshold: float = 0.3)
ClusterThreshold == Rat(3, 10)

\* EntityDetector._cluster_candidates: the groups, as sequences of candidate
\* positions.  A group is its seed i and every unvisited j whose similarity
\* to the seed reaches the threshold.
RECURSIVE ClusterFrom(_, _, _)
ClusterFrom(candidates, i, visited) ==
    IF i > Len(candidates) THEN <<>>
    ELSE IF i \in visited THEN ClusterFrom(candidates, i + 1, visited)
    ELSE LET joined == {j \in DOMAIN candidates :
                          /\ j \notin visited /\ j # i
                          /\ RatLeq(ClusterThreshold,
                                    _calculate_similarity(candidates[i], candidates[j]))}
             group == <<i>> \o Kept([j \in DOMAIN candidates |-> j], joined)
         IN  <<group>> \o ClusterFrom(candidates, i + 1, visited \cup {i} \cup joined)

_cluster_candidates(candidates) == ClusterFrom(candidates, 1, {})

\* EntityDetector._choose_canonical_name: the first name of the highest score
_choose_canonical_name(group) ==
    LET score(c) == (IF ~c.is_numeric_id THEN 2 ELSE 0)
                    + (IF c.value_pattern \in {"alpha", "with_spaces"} THEN 1 ELSE 0)
                    + (IF c.cardinality > 5 THEN 1 ELSE 0)
        best == CHOOSE k \in DOMAIN group :
                    /\ \A j \in DOMAIN group : score(group[j]) <= score(group[k])
                    /\ \A j \in 1..(k - 1) : score(group[j]) < score(group[k])
    IN  group[best].column_name

\* str(uuid4()) of the n-th Entity created
EntityId(n) == "e" \o ToString(n)

\* all_values of a group: the union of its candidates' values
AllValues(group) == UNION {group[k].unique_values : k \in DOMAIN group}

\* The Entity _create_entities builds for one group.  source_columns and
\* source_sheets are list(set(...)): the sets, in no particular order.
EntityOfGroup(group, entity_id) ==
    LET source_sheets == {group[k].sheet_name : k \in DOMAIN group}
    IN  [ id |-> entity_id,
          canonical_name |-> _choose_canonical_name(group),
          source_columns |-> {group[k].column_name : k \in DOMAIN group},
          source_sheets |-> source_sheets,
          cardinality |-> Cardinality(AllValues(group)),
          is_primary |->
              \/ Cardinality(source_sheets) > 1
              \/ \E k \in DOMAIN group : RatLess(Rat(9, 10), group[k].unique_ratio),
          related_entities |-> {} ]

\* EntityDetector._create_entities followed by self.entities = ...: the
\* detector after detect_entities.  created is the number of Entity objects
\* made before; column_to_entity and value_index keep what they held.
_create_entities(det, entity_groups, created) ==
    LET id(g) == EntityId(created + g)
        keys(g) == {<<entity_groups[g][k].sheet_name, entity_groups[g][k].column_name>> :
                        k \in DOMAIN entity_groups[g]}
        new_keys == UNION {keys(g) : g \in DOMAIN entity_groups}
        new_values == UNION {AllValues(entity_groups[g]) : g \in DOMAIN entity_groups}
        \* a column is a candidate once; a later group would overwrite
        group_of(key) == CHOOSE g \in DOMAIN entity_groups :
                            /\ key \in keys(g)
                            /\ \A h \in DOMAIN entity_groups : key \in keys(h) => h <= g
    IN  [ entities |-> [g \in DOMAIN entity_groups |->
                            EntityOfGroup(entity_groups[g], id(g))],
          column_to_entity |->
              [key \in DOMAIN det.column_to_entity \cup new_keys |->
                  IF key \in new_keys THEN id(group_of(key))
                  ELSE det.column_to_entity[key]],
          value_index |->
              [v \in DOMAIN det.value_index \cup new_values |->
                  (IF v \in DOMAIN det.value_index THEN det.value_index[v] ELSE {})
                  \cup {id(g) : g \in {h \in DOMAIN entity_groups :
                                          v \in AllValues(entity_groups[h])}}] ]

\* EntityDetector._link_candidates: the groups as sequences of candidates
_link_candidates(candidates) ==
    LET groups == _cluster_candidates(candidates)
    IN  [g \in DOMAIN groups |->
            [k \in DOMAIN groups[g] |-> candidates[groups[g][k]]]]

\* EntityDetector.detect_entities: the detector afterwards
detect_entities(det, datasets, sheet_profiles, created) ==
    _create_entities(det,
        _link_candidates(_find_candidates(datasets, sheet_profiles, 1)), created)

\* EntityDetector.find_entities_by_value: the ids of the entities found, as a
\* set.  The list the code returns is this set in the iteration order of a
\* Python set of uuid strings.
find_entities_by_value(det, value) ==
    IF value \in DOMAIN det.value_index
    THEN {eid \in det.value_index[value] : EntityById(det.entities, eid) # Nothing}
    ELSE {}

\* The iteration orders a set of strings can have: every arrangement of its
\* elements in a sequence.
SetOrders(S) ==
    {order \in [1..Cardinality(S) -> S] :
        \A i, j \in 1..Cardinality(S) : i # j => order[i] # order[j]}

\* One of the iteration orders of a set
RECURSIVE OneOrder(_)
OneOrder(S) ==
    IF S = {} THEN <<>>
    ELSE LET x == CHOOSE y \in S : TRUE IN <<x>> \o OneOrder(S \ {x})

\* matches = find_entities_by_value(value) under an iteration order of the
\* entity ids: the ids found, by their position in hash_order
RECURSIVE OrderedMatches(_, _, _)
OrderedMatches(found, hash_order, k) ==
    IF k > Len(hash_order) THEN <<>>
    ELSE (IF hash_order[k] \in found THEN <<hash_order[k]>> ELSE <<>>)
         \o OrderedMatches(found, hash_order, k + 1)

-----------------------------------------------------------------------------
(***************************************************************************)
(* Gap analysis over a workbook (core/gap_analyzer.py)                     *)
(***************************************************************************)
NewGapAnalyzer == [ gaps |-> <<>>, plans |-> <<>>, actuals |-> <<>>, column_pairs |-> <<>> ]

\* The elements of a finite set in increasing rank, rank a function on the set
RECURSIVE SortedByRank(_, _)
SortedByRank(S, rank) ==
    IF S = {} THEN <<>>
    ELSE LET m == CHOOSE x \in S : \A y \in S : rank[x] <= rank[y]
         IN  <<m>> \o SortedByRank(S \ {m}, rank)

\* Concatenation of a sequence of sequences
RECURSIVE Flatten(_)
Flatten(ss) == IF ss = <<>> THEN <<>> ELSE Head(ss) \o Flatten(Tail(ss))

\* str(row.get(col)) for a row of df.iterrows().  The row is a Series over all
\* columns: of dtype float64 when every column is numeric and one is float64
\* (an integer then prints with ".0"), otherwise each value keeps its type.
RowStr(df, col, i) ==
    LET cell == df.data[col][i]
        all_numeric == \A c \in Range(df.columns) : IsNumericDtype(df, c)
        some_float == \E c \in Range(df.columns) : df.dtype[c] = "float64"
    IN  IF cell = Nothing THEN "nan"
        ELSE IF all_numeric /\ some_float THEN StrOfValue("float64", The(cell))
        ELSE StrOfValue(df.dtype[col], The(cell))

\* GapAnalyzer._find_common_entities: the columns of df1 whose entity is also
\* the entity of some column of df2, in column order
_find_common_entities(df1, df2, sheet1, sheet2, det) ==
    SelectSeq(df1.columns, LAMBDA col1 :
        LET entity1 == get_entity_for_column(det, sheet1, col1)
        IN  /\ entity1 # Nothing
            /\ \E k \in DOMAIN df2.columns :
                  LET entity2 == get_entity_for_column(det, sheet2, df2.columns[k])
                  IN  entity2 # Nothing /\ The(entity1).id = The(entity2).id)

\* GapAnalyzer._column_similarity_score, as an exact fraction
_column_similarity_score(s1, s2) ==
    LET range1 == MaxOf(s1) - MinOf(s1)
        range2 == MaxOf(s2) - MinOf(s2)
        range_ratio == Rat(Min(range1, range2), Max(range1, range2))
        \* |mean| = |sum| / n, compared by cross-multiplication
        m1 == Abs(SumSeq(s1)) * Len(s2)
        m2 == Abs(SumSeq(s2)) * Len(s1)
        mean_ratio == IF m1 = 0 /\ m2 = 0 THEN RatOfInt(1)
                      ELSE IF m1 = 0 \/ m2 = 0 THEN RatOfInt(0)
                      ELSE Rat(Min(m1, m2), Max(m1, m2))
        half(q) == Rat(q.num, 2 * q.den)
    IN  IF s1 = <<>> \/ s2 = <<>> THEN RatOfInt(0)
        ELSE IF range1 = 0 \/ range2 = 0 THEN RatOfInt(0)
        ELSE RatAdd(half(range_ratio), half(mean_ratio))

\* The scores of one plan column against the numeric actual columns, in
\* column order
MatchScores(plan_df, actual_df, plan_col) ==
    [k \in DOMAIN NumericColumns(actual_df) |->
        _column_similarity_score(DropNa(plan_df, plan_col),
                                 DropNa(actual_df, NumericColumns(actual_df)[k]))]

\* The first actual column of the highest score above 0, kept when the score
\* is above 0.3
BestScoring(actual_numeric, scores) ==
    LET best == {k \in DOMAIN scores :
                    /\ RatLess(RatOfInt(0), scores[k])
                    /\ \A j \in DOMAIN scores : RatLeq(scores[j], scores[k])
                    /\ \A j \in 1..(k - 1) : RatLess(scores[j], scores[k])}
    IN  {actual_numeric[k] : k \in {j \in best : RatLess(Rat(3, 10), scores[j])}}

\* The best match of one plan column, if any
BestMatch(plan_df, actual_df, plan_col) ==
    BestScoring(NumericColumns(actual_df), MatchScores(plan_df, actual_df, plan_col))

\* The <<plan column, actual column>> pairs of the plan columns that have a
\* best match, in column order
MatchedPairs(plan_numeric, best) ==
    LET matched == SelectSeq([k \in DOMAIN plan_numeric |-> k],
                             LAMBDA k : best[k] # Nothing)
    IN  [n \in DOMAIN matched |->
            <<plan_numeric[matched[n]], The(best[matched[n]])>>]

\* GapAnalyzer._match_metric_columns: the <<plan column, actual column>> pairs
_match_metric_columns(plan_df, actual_df) ==
    MatchedPairs(NumericColumns(plan_df),
                 [k \in DOMAIN NumericColumns(plan_df) |->
                     BestMatch(plan_df, actual_df, NumericColumns(plan_df)[k])])

\* corr > 0.7 for df[col1].corr(df[col2]): Pearson over the rows where both
\* are non-null; NaN (never > 0.7) with fewer than two such rows or a constant
\* column.  corr = sxy / sqrt(sxx * syy), decided on the squares.
HighCorrelation(df, col1, col2) ==
    LET rows == Kept([i \in DOMAIN df.index |-> i],
                     NonNullRows(df, col1) \cap NonNullRows(df, col2))
        xs == [k \in DOMAIN rows |-> The(df.data[col1][rows[k]])]
        ys == [k \in DOMAIN rows |-> The(df.data[col2][rows[k]])]
        n  == Len(rows)
        sxx == ScaledVariance(xs)
        syy == ScaledVariance(ys)
        sxy == n * SumSeq([k \in DOMAIN rows |-> xs[k] * ys[k]]) - SumSeq(xs) * SumSeq(ys)
    IN  /\ n >= 2 /\ sxx > 0 /\ syy > 0
        /\ sxy > 0 /\ 100 * sxy * sxy > 49 * sxx * syy

\* series.var() of the non-null values, as a fraction (defined for n >= 2)
Variance(xs) == Rat(ScaledVariance(xs), Len(xs) * (Len(xs) - 1))

\* The pair _detect_comparison_pairs appends for col1, col2, if any:
\* <<plan column, actual column>>, the column of lower variance first
ComparisonPair(df, col1, col2) ==
    LET xs == DropNa(df, col1)
        ys == DropNa(df, col2)
    IN  IF /\ HighCorrelation(df, col1, col2)
           /\ StdPositive(xs) /\ StdPositive(ys)
           \* var_ratio = min / max < 0.8
           /\ LET lo == IF RatLess(Variance(xs), Variance(ys)) THEN Variance(xs) ELSE Variance(ys)
                  hi == IF RatLess(Variance(xs), Variance(ys)) THEN Variance(ys) ELSE Variance(xs)
              IN  5 * lo.num * hi.den < 4 * hi.num * lo.den
        THEN (IF RatLess(Variance(xs), Variance(ys))
              THEN <<(<<col1, col2>>)>> ELSE <<(<<col2, col1>>)>>)
        ELSE <<>>

\* GapAnalyzer._detect_comparison_pairs
_detect_comparison_pairs(df, numeric_cols) ==
    Flatten([i \in DOMAIN numeric_cols |->
        Flatten([d \in 1..(Len(numeric_cols) - i) |->
            ComparisonPair(df, numeric_cols[i], numeric_cols[i + d])])])

\* GapAnalyzer._extract_gaps_from_columns: what _create_gap builds for each
\* row with both values, in row order.  hash_order is the iteration order of
\* the entity-id sets in this run.
_extract_gaps_from_columns(df, plan_col, actual_col, sheet_name, det, hash_order) ==
    LET entity_col == FirstEntityColumn(df, det, sheet_name, TRUE)
        rows == Kept([i \in DOMAIN df.index |-> i],
                     NonNullRows(df, plan_col) \cap NonNullRows(df, actual_col))
    IN  [k \in DOMAIN rows |->
            LET i == rows[k]
                entity_val == IF entity_col # Nothing
                              THEN RowStr(df, The(entity_col), i)
                              ELSE RowLabel(df.index[i])
            IN  _create_gap(entity_val, plan_col,
                            The(df.data[plan_col][i]), The(df.data[actual_col][i]),
                            OrderedMatches(find_entities_by_value(det, entity_val),
                                           hash_order, 1),
                            sheet_name)]

\* GapAnalyzer._analyze_column_pairs, for one sheet: the ColumnPairs it
\* appends
ColumnPairsOf(sheet_name, df) ==
    LET numeric_cols == NumericColumns(df)
        pairs == IF Len(numeric_cols) < 2 THEN <<>>
                 ELSE _detect_comparison_pairs(df, numeric_cols)
    IN  [k \in DOMAIN pairs |->
            [plan_column |-> pairs[k][1], actual_column |-> pairs[k][2],
             sheet_name |-> sheet_name]]

\* The ColumnPairs _analyze_column_pairs appends for all sheets, in order
ColumnPairsFound(datasets) ==
    Flatten([k \in DOMAIN datasets |-> ColumnPairsOf(datasets[k].name, datasets[k].df)])

\* The kinds of merge key pd.merge tells apart
KeyKind(dtype) ==
    CASE dtype = "object" -> "object"
      [] dtype = "datetime64" -> "datetime"
      [] OTHER -> "number"

\* _extract_gaps_from_sheets raises: actual_df[[entity_col, actual_metric]] is
\* a KeyError when the actual sheet has no column of that name; a metric that
\* is the entity column leaves no key column after the rename (KeyError in
\* pd.merge); keys of different kinds are a ValueError in pd.merge.
MergeRaises(plan_df, actual_df, entity_col, plan_metric, actual_metric) ==
    \/ entity_col \notin Range(actual_df.columns)
    \/ entity_col = plan_metric
    \/ entity_col = actual_metric
    \/ KeyKind(plan_df.dtype[entity_col]) # KeyKind(actual_df.dtype[entity_col])

\* The rows of the outer merge that have both a plan and an actual value:
\* <<plan row, actual row>> positions, keys in sorted order (null keys last,
\* matched with each other), and for one key the plan rows in order, each
\* with the actual rows in order.
MergedPairs(plan_df, actual_df, entity_col, plan_metric, actual_metric) ==
    LET plan_rows == NonNullRows(plan_df, plan_metric)
        actual_rows == NonNullRows(actual_df, actual_metric)
        key(df, i) == df.data[entity_col][i]
        keys == {key(plan_df, i) : i \in plan_rows}
                    \cap {key(actual_df, j) : j \in actual_rows}
        rank == [k \in keys |->
                    IF k = Nothing THEN SortRankLast
                    ELSE IF plan_df.dtype[entity_col] = "object" THEN SortRank(The(k))
                    ELSE The(k)]
        sorted == SortedByRank(keys, rank)
        ps(k) == Kept([i \in DOMAIN plan_df.index |-> i],
                      {i \in plan_rows : key(plan_df, i) = k})
        as(k) == Kept([j \in DOMAIN actual_df.index |-> j],
                      {j \in actual_rows : key(actual_df, j) = k})
    IN  Flatten([n \in DOMAIN sorted |->
            Flatten([a \in DOMAIN ps(sorted[n]) |->
                [b \in DOMAIN as(sorted[n]) |->
                    <<ps(sorted[n])[a], as(sorted[n])[b]>>]])])

\* str(row.get(entity_col)) for a row of merged.iterrows(): the merged frame
\* has the key, 'plan' and 'actual'; with a numeric key the row is float64 as
\* soon as one of the three columns is (a float64 source column, or a NaN the
\* outer join filled in for a key only one side has).
MergedKeyStr(plan_df, actual_df, entity_col, plan_metric, actual_metric, i) ==
    LET cell == plan_df.data[entity_col][i]
        plan_keys == {plan_df.data[entity_col][r] : r \in DOMAIN plan_df.index}
        actual_keys == {actual_df.data[entity_col][r] : r \in DOMAIN actual_df.index}
        some_float ==
            \/ "float64" \in {plan_df.dtype[entity_col], actual_df.dtype[entity_col],
                              plan_df.dtype[plan_metric], actual_df.dtype[actual_metric]}
            \/ plan_keys # actual_keys
    IN  IF cell = Nothing THEN "nan"
        ELSE IF KeyKind(plan_df.dtype[entity_col]) = "number" /\ some_float
             THEN StrOfValue("float64", The(cell))
        ELSE StrOfValue(plan_df.dtype[entity_col], The(cell))

\* GapAnalyzer._extract_gaps_from_sheets, when it does not raise: what
\* _create_gap builds for each merged row with both values
_extract_gaps_from_sheets(plan_df, actual_df, entity_col, plan_metric, actual_metric, plan_sheet, det, hash_order) ==
    LET pairs == MergedPairs(plan_df, actual_df, entity_col, plan_metric, actual_metric)
    IN  [k \in DOMAIN pairs |->
            LET entity_val == MergedKeyStr(plan_df, actual_df, entity_col,
                                           plan_metric, actual_metric, pairs[k][1])
            IN  _create_gap(entity_val, plan_metric,
                            The(plan_df.data[plan_metric][pairs[k][1]]),
                            The(actual_df.data[actual_metric][pairs[k][2]]),
                            OrderedMatches(find_entities_by_value(det, entity_val),
                                           hash_order, 1),
                            plan_sheet)]

\* The sheets of the given roles, in sheet order
SheetsOfRoles(sheet_profiles, roles) ==
    LET hits == SelectSeq(sheet_profiles, LAMBDA p : p.inferred_role \in roles)
    IN  [k \in DOMAIN hits |-> hits[k].name]

\* The calls of _extract_gaps_from_sheets for one plan sheet and one actual
\* sheet: every common entity column with every matched metric pair
CallsFor(plan_sheet, actual_sheet, common, metric_pairs) ==
    Flatten([e \in DOMAIN common |->
        [m \in DOMAIN metric_pairs |->
            [ plan_sheet |-> plan_sheet, actual_sheet |-> actual_sheet,
              entity_col |-> common[e],
              plan_metric |-> metric_pairs[m][1],
              actual_metric |-> metric_pairs[m][2] ]]])

\* GapAnalyzer._analyze_separate_sheets: the calls of _extract_gaps_from_sheets
\* it makes, in order
SeparateSheetCalls(datasets, sheet_profiles, det) ==
    LET plan_sheets == SheetsOfRoles(sheet_profiles, {"plan"})
        actual_sheets == SheetsOfRoles(sheet_profiles, {"actual", "transactional"})
    IN  Flatten([p \in DOMAIN plan_sheets |->
            Flatten([a \in DOMAIN actual_sheets |->
                CallsFor(plan_sheets[p], actual_sheets[a],
                         _find_common_entities(FrameOf(datasets, plan_sheets[p]),
                                               FrameOf(datasets, actual_sheets[a]),
                                               plan_sheets[p], actual_sheets[a], det),
                         _match_metric_columns(FrameOf(datasets, plan_sheets[p]),
                                               FrameOf(datasets, actual_sheets[a])))])])

\* The Gap / Plan / Actual objects of a sequence of _create_gap results
GapsOf(created) == [k \in DOMAIN created |-> created[k].gap]

PlansOf(created) == [k \in DOMAIN created |-> created[k].plan]

ActualsOf(created) == [k \in DOMAIN created |-> created[k].actual]

\* The analyzer after appending what _create_gap built
AppendCreated(analyzer, created) ==
    [ analyzer EXCEPT !.gaps = @ \o GapsOf(created),
                      !.plans = @ \o PlansOf(created),
                      !.actuals = @ \o ActualsOf(created) ]

\* The calls made before the first one that raises
CompletedCalls(datasets, extractions) ==
    LET bad == {k \in DOMAIN extractions :
                    MergeRaises(FrameOf(datasets, extractions[k].plan_sheet),
                                FrameOf(datasets, extractions[k].actual_sheet),
                                extractions[k].entity_col, extractions[k].plan_metric,
                                extractions[k].actual_metric)}
    IN  SelectSeq([k \in DOMAIN extractions |-> k],
                  LAMBDA k : \A j \in bad : k < j)

\* Strategy 1 for the calls it makes: the analyzer afterwards, and whether a
\* call raised.  An exception leaves what was appended before it.
SeparateSheetsOutcome(analyzer, datasets, extractions, completed, det, hash_order) ==
    [ raised |-> Len(completed) < Len(extractions),
      analyzer |-> AppendCreated(analyzer,
          Flatten([n \in DOMAIN completed |->
              _extract_gaps_from_sheets(
                  FrameOf(datasets, extractions[completed[n]].plan_sheet),
                  FrameOf(datasets, extractions[completed[n]].actual_sheet),
                  extractions[completed[n]].entity_col,
                  extractions[completed[n]].plan_metric,
                  extractions[completed[n]].actual_metric,
                  extractions[completed[n]].plan_sheet,
                  det, hash_order)])) ]

\* The completed calls of a sequence of calls
WithCompleted(analyzer, datasets, extractions, det, hash_order) ==
    SeparateSheetsOutcome(analyzer, datasets, extractions,
                          CompletedCalls(datasets, extractions), det, hash_order)

\* GapAnalyzer._analyze_separate_sheets
_analyze_separate_sheets(analyzer, datasets, det, sheet_profiles, hash_order) ==
    WithCompleted(analyzer, datasets,
                  SeparateSheetCalls(datasets, sheet_profiles, det), det, hash_order)

\* Strategy 2 for the pairs it detects: the pairs and their gaps are appended
AppendColumnPairs(analyzer, datasets, column_pairs, det, hash_order) ==
    [ AppendCreated(analyzer,
          Flatten([k \in DOMAIN column_pairs |->
              _extract_gaps_from_columns(
                  FrameOf(datasets, column_pairs[k].sheet_name),
                  column_pairs[k].plan_column, column_pairs[k].actual_column,
                  column_pairs[k].sheet_name, det, hash_order)]))
      EXCEPT !.column_pairs = @ \o column_pairs ]

\* GapAnalyzer._analyze_column_pairs
_analyze_column_pairs(analyzer, datasets, det, hash_order) ==
    AppendColumnPairs(analyzer, datasets, ColumnPairsFound(datasets), det, hash_order)

\* The sheets strategy 3 looks at, in sheet order
ComparisonSheets(sheet_profiles) ==
    SelectSeq(sheet_profiles, LAMBDA p :
        p.inferred_role = "comparison" \/ p.has_comparisons)

\* The gaps of the difference columns of the given sheets
ComparisonGaps(datasets, comparison_sheets, det) ==
    Flatten([k \in DOMAIN comparison_sheets |->
        _analyze_difference_columns(FrameOf(datasets, comparison_sheets[k].name),
                                    comparison_sheets[k].name, det)])

\* GapAnalyzer._analyze_comparison_sheets
_analyze_comparison_sheets(analyzer, datasets, det, sheet_profiles) ==
    [ analyzer EXCEPT !.gaps =
          @ \o ComparisonGaps(datasets, ComparisonSheets(sheet_profiles), det) ]

\* Strategies 2 and 3, made when strategy 1 did not raise
AfterSeparateSheets(outcome, datasets, det, sheet_profiles, hash_order) ==
    IF outcome.raised THEN outcome
    ELSE [ raised |-> FALSE,
           analyzer |-> _analyze_comparison_sheets(
                            _analyze_column_pairs(outcome.analyzer, datasets,
                                                  det, hash_order),
                            datasets, det, sheet_profiles) ]

\* GapAnalyzer.analyze_gaps: the analyzer afterwards, and whether the call
\* raised.  The three strategies append to the lists the analyzer already
\* holds.
analyze_gaps(analyzer, datasets, det, sheet_profiles, hash_order) ==
    AfterSeparateSheets(
        _analyze_separate_sheets(analyzer, datasets, det, sheet_profiles, hash_order),
        datasets, det, sheet_profiles, hash_order)

-----------------------------------------------------------------------------
(***************************************************************************)
(* Constraint extraction (core/constraint_extractor.py)                    *)
(***************************************************************************)
NewConstraintExtractor == [ constraints |-> <<>> ]

\* ConstraintExtractor._severity_from_constraint_type
_severity_from_constraint_type(constraint_type) ==
    IF constraint_type \in {"blocking", "deadline", "critical"} THEN "high"
    ELSE IF constraint_type \in {"dependency", "resource", "capacity"} THEN "medium"
    ELSE "low"

\* ConstraintExtractor._determine_severity; confidence is in tenths
_determine_severity(pattern) ==
    IF pattern.confidence > 7 THEN _severity_from_constraint_type(pattern.pattern_type)
    ELSE "low"

\* ConstraintExtractor._classify_status_structurally: the optional type
_classify_status_structurally(status, proportion) ==
    IF RatLess(proportion, Rat(5, 100))
    THEN (IF _has_negation_pattern(status) THEN Some("blocking") ELSE Some("exception"))
    ELSE IF RatLess(proportion, Rat(2, 10))
         THEN (IF _has_process_pattern(status) THEN Some("in_progress")
               ELSE Some("dependency"))
    ELSE Nothing

\* df[col].value_counts(): the distinct non-null values, most frequent first,
\* equally frequent ones in the order they first appear
ValueCounts(df, col) ==
    LET xs == DropNa(df, col)
        count(v) == Cardinality({i \in DOMAIN xs : xs[i] = v})
        first(v) == CHOOSE i \in DOMAIN xs : xs[i] = v /\ \A j \in 1..(i - 1) : xs[j] # v
        rank == [v \in Range(xs) |-> first(v) - count(v) * (Len(xs) + 1)]
        values == SortedByRank(Range(xs), rank)
    IN  [k \in DOMAIN values |-> [value |-> values[k], count |-> count(values[k])]]

\* ConstraintExtractor._identify_blocking_statuses: the dict, as the lowered
\* statuses it holds and the type of each (a later value of the same lowered
\* text overwrites an earlier one)
_identify_blocking_statuses(status_counts) ==
    LET total == SumSeq([k \in DOMAIN status_counts |-> status_counts[k].count])
        type(k) == IF RatLess(Rat(status_counts[k].count, total), Rat(3, 10))
                   THEN _classify_status_structurally(
                            StripLower(status_counts[k].value),
                            Rat(status_counts[k].count, total))
                   ELSE Nothing
        set == {k \in DOMAIN status_counts : type(k) # Nothing}
        last(s) == CHOOSE k \in set :
                      /\ StripLower(status_counts[k].value) = s
                      /\ \A j \in set : StripLower(status_counts[j].value) = s => j <= k
    IN  [s \in {StripLower(status_counts[k].value) : k \in set} |-> The(type(last(s)))]

\* ConstraintExtractor._get_row_entity: str of the row's value in the first
\* column of a primary entity that is not null there, or Nothing
_get_row_entity(df, i, sheet_name, det) ==
    LET hits == {k \in DOMAIN df.columns :
                    LET e == get_entity_for_column(det, sheet_name, df.columns[k])
                    IN  /\ e # Nothing /\ The(e).is_primary
                        /\ df.data[df.columns[k]][i] # Nothing}
    IN  IF hits = {} THEN Nothing
        ELSE Some(StrOfCell(df, df.columns[CHOOSE k \in hits : \A j \in hits : k <= j], i))

\* ConstraintExtractor._extract_from_status: the constraints it appends
_extract_from_status(df, col_name, sheet_name, det) ==
    LET blocking_patterns == _identify_blocking_statuses(ValueCounts(df, col_name))
        rows == SelectSeq([i \in DOMAIN df.index |-> i], LAMBDA i :
                    /\ df.data[col_name][i] # Nothing
                    /\ StripLower(The(df.data[col_name][i])) \in DOMAIN blocking_patterns)
    IN  [k \in DOMAIN rows |->
            LET status_val == The(df.data[col_name][rows[k]])
                constraint_type == blocking_patterns[StripLower(status_val)]
            IN  [ entity_id |-> _get_row_entity(df, rows[k], sheet_name, det),
                  constraint_type |-> constraint_type,
                  description |-> "Status indicates " \o constraint_type \o ": " \o status_val,
                  source_text |-> status_val,
                  source_sheet |-> sheet_name,
                  source_column |-> col_name,
                  severity |-> _severity_from_constraint_type(constraint_type) ]]

\* ConstraintExtractor._extract_from_remarks: the constraints it appends
_extract_from_remarks(df, col_name, sheet_name, det) ==
    LET rows == SelectSeq([i \in DOMAIN df.index |-> i], LAMBDA i :
                    /\ df.data[col_name][i] # Nothing
                    /\ Len(Strip(The(df.data[col_name][i]))) >= 3)
    IN  Flatten([k \in DOMAIN rows |->
            LET remark_str == Strip(The(df.data[col_name][rows[k]]))
                patterns == _analyze_remark_text(remark_str)
            IN  [p \in DOMAIN patterns |->
                    [ entity_id |-> _get_row_entity(df, rows[k], sheet_name, det),
                      constraint_type |-> patterns[p].pattern_type,
                      description |-> "Extracted from remark: " \o patterns[p].matched_text,
                      source_text |-> remark_str,
                      source_sheet |-> sheet_name,
                      source_column |-> col_name,
                      severity |-> _determine_severity(patterns[p]) ]]])

\* ConstraintExtractor._extract_from_category: the constraints it appends
_extract_from_category(df, col_name, sheet_name, det) ==
    LET value_counts == ValueCounts(df, col_name)
        total == SumSeq([k \in DOMAIN value_counts |-> value_counts[k].count])
        rare == SelectSeq(value_counts, LAMBDA vc :
                    RatLess(Rat(vc.count, total), Rat(5, 100)) /\ vc.count >= 1)
    IN  Flatten([k \in DOMAIN rare |->
            LET rows == SelectSeq([i \in DOMAIN df.index |-> i], LAMBDA i :
                            df.data[col_name][i] = Some(rare[k].value))
            IN  [r \in DOMAIN rows |->
                    [ entity_id |-> _get_row_entity(df, rows[r], sheet_name, det),
                      constraint_type |-> "exception",
                      description |-> "Rare category value: " \o rare[k].value,
                      source_text |-> rare[k].value,
                      source_sheet |-> sheet_name,
                      source_column |-> col_name,
                      severity |-> "medium" ]]])

\* ConstraintExtractor._identify_constraint_columns: <<column, type>> pairs
_identify_constraint_columns(df, profile) ==
    LET typed == [k \in DOMAIN profile.column_profiles |->
                    LET p == profile.column_profiles[k]
                    IN  IF p.semantic_type = "status" THEN <<(<<p.name, "status">>)>>
                        ELSE IF p.semantic_type = "remark" THEN <<(<<p.name, "remark">>)>>
                        ELSE IF df.dtype[p.name] = "object"
                                /\ RatLess(p.unique_ratio, Rat(3, 10))
                             THEN <<(<<p.name, "category">>)>>
                        ELSE <<>>]
    IN  Flatten(typed)

\* ConstraintExtractor._extract_from_column
_extract_from_column(df, col_name, col_type, sheet_name, det) ==
    CASE col_type = "status" -> _extract_from_status(df, col_name, sheet_name, det)
      [] col_type = "remark" -> _extract_from_remarks(df, col_name, sheet_name, det)
      [] col_type = "category" -> _extract_from_category(df, col_name, sheet_name, det)
      [] OTHER -> <<>>

\* ConstraintExtractor.extract_constraints: the extractor afterwards; the
\* constraints are appended to the list it already holds
extract_constraints(extractor, datasets, det, sheet_profiles) ==
    LET of_sheet(k) ==
            LET df == datasets[k].df
                cols == _identify_constraint_columns(df,
                            ProfileOf(sheet_profiles, datasets[k].name))
            IN  Flatten([c \in DOMAIN cols |->
                    _extract_from_column(df, cols[c][1], cols[c][2],
                                         datasets[k].name, det)])
    IN  [ extractor EXCEPT
            !.constraints = @ \o Flatten([k \in DOMAIN datasets |-> of_sheet(k)]) ]

-----------------------------------------------------------------------------
(***************************************************************************)
(* Relationship graph (core/relationship_graph.py)                         *)
(***************************************************************************)
\* Relationship(source_entity_id, target_entity_id, relationship_type, strength)
Relationship(source_entity_id, target_entity_id, relationship_type, strength) ==
    [ source_entity_id |-> source_entity_id,
      target_entity_id |-> target_entity_id,
      relationship_type |-> relationship_type,
      strength |-> strength ]

\* RelationshipGraph.__init__
NewRelationshipGraph ==
    [ relationships |-> <<>>, adjacency |-> <<>>, relationship_index |-> <<>> ]

\* self.adjacency[entity_id].add(other) on the defaultdict(set)
AdjacencyAdd(adjacency, entity_id, other) ==
    [ k \in DOMAIN adjacency \cup {entity_id} |->
        IF k = entity_id
        THEN (IF k \in DOMAIN adjacency THEN adjacency[k] ELSE {}) \cup {other}
        ELSE adjacency[k] ]

\* self.relationship_index[key] = rel
IndexPut(relationship_index, key, rel) ==
    [ k \in DOMAIN relationship_index \cup {key} |->
        IF k = key THEN rel ELSE relationship_index[k] ]

\* RelationshipGraph._add_relationship
_add_relationship(g, rel) ==
    LET key == <<rel.source_entity_id, rel.target_entity_id>>
        exists == key \in DOMAIN g.relationship_index
    IN  [ relationships |->
              IF exists THEN g.relationships ELSE Append(g.relationships, rel),
          relationship_index |->
              IF exists
              THEN (IF RatLess(g.relationship_index[key].strength, rel.strength)
                    THEN IndexPut(g.relationship_index, key, rel)
                    ELSE g.relationship_index)
              ELSE IndexPut(g.relationship_index, key, rel),
          adjacency |->
              AdjacencyAdd(AdjacencyAdd(g.adjacency, rel.source_entity_id,
                                        rel.target_entity_id),
                           rel.target_entity_id, rel.source_entity_id) ]

\* RelationshipGraph.get_related_entities
get_related_entities(g, entity_id) ==
    IF entity_id \in DOMAIN g.adjacency THEN g.adjacency[entity_id] ELSE {}

\* self.relationship_index.get(key)
IndexGet(relationship_index, key) ==
    IF key \in DOMAIN relationship_index THEN Some(relationship_index[key]) ELSE Nothing

\* RelationshipGraph.get_relationship: the edge stored as (source, target), or
\* else the one stored as (target, source)
get_relationship(g, source_id, target_id) ==
    IF IndexGet(g.relationship_index, <<source_id, target_id>>) # Nothing
    THEN IndexGet(g.relationship_index, <<source_id, target_id>>)
    ELSE IndexGet(g.relationship_index, <<target_id, source_id>>)

\* Mutant of ChainFrom: a related id is tagged every time it is met, visited
\* before or not.
RECURSIVE ChainFrom_Retagging(_, _, _, _, _)
ChainFrom_Retagging(g, visited, frontier, depth, max_depth) ==
    IF depth > max_depth THEN visited
    ELSE LET related == UNION {get_related_entities(g, entity_id) : entity_id \in frontier}
         IN  ChainFrom_Retagging(g,
                 [x \in DOMAIN visited \cup related |->
                     IF x \in related THEN depth ELSE visited[x]],
                 related, depth + 1, max_depth)

\* get_relationship_chain: the loop over depths from depth on.  frontier is
\* the list of the ids tagged at the depth before, as a set; the ids related
\* to it that are not yet in visited are tagged with depth and make the next
\* frontier.  (The order of the frontier decides the order of the keys of the
\* dict only.)
RECURSIVE ChainFrom(_, _, _, _, _)
ChainFrom(g, visited, frontier, depth, max_depth) ==
    IF depth > max_depth THEN visited
    ELSE LET related == UNION {get_related_entities(g, entity_id) : entity_id \in frontier}
             next_frontier == related \ DOMAIN visited
         IN  ChainFrom(g,
                 [x \in DOMAIN visited \cup next_frontier |->
                     IF x \in DOMAIN visited THEN visited[x] ELSE depth],
                 next_frontier, depth + 1, max_depth)

\* RelationshipGraph.get_relationship_chain: the dict from id to depth
get_relationship_chain(g, start_entity_id, max_depth) ==
    ChainFrom(g, [x \in {start_entity_id} |-> 0], {start_entity_id}, 1, max_depth)

\* ---- build_graph ----
\* graph._add_relationship(rel) for the relationships of a sequence, in order
RECURSIVE AddAll(_, _)
AddAll(g, rels) ==
    IF rels = <<>> THEN g ELSE AddAll(_add_relationship(g, Head(rels)), Tail(rels))

\* The columns of a sheet that have an entity, in column order
EntityColumns(df, det, sheet_name) ==
    SelectSeq(df.columns, LAMBDA c : get_entity_for_column(det, sheet_name, c) # Nothing)

\* The pairs (i, j), i < j <= n, in the order of the two nested loops
PairsInOrder(n) ==
    Flatten([i \in 1..n |-> [d \in 1..(n - i) |-> <<i, i + d>>]])

\* df[[col1, col2]].dropna().shape[0]
BothPresent(df, col1, col2) ==
    Cardinality(NonNullRows(df, col1) \cap NonNullRows(df, col2))

\* _find_co_occurrence_relationships: the relationships found in one sheet
CoOccurrences(df, det, sheet_name, cols) ==
    LET pairs == SelectSeq(PairsInOrder(Len(cols)), LAMBDA p :
            /\ The(get_entity_for_column(det, sheet_name, cols[p[1]])).id
                   # The(get_entity_for_column(det, sheet_name, cols[p[2]])).id
            /\ Len(df.index) > 0
            /\ 2 * BothPresent(df, cols[p[1]], cols[p[2]]) > Len(df.index))
    IN  [k \in DOMAIN pairs |->
            Relationship(The(get_entity_for_column(det, sheet_name, cols[pairs[k][1]])).id,
                         The(get_entity_for_column(det, sheet_name, cols[pairs[k][2]])).id,
                         "co-occurs",
                         Rat(BothPresent(df, cols[pairs[k][1]], cols[pairs[k][2]]),
                             Len(df.index)))]

\* RelationshipGraph._find_co_occurrence_relationships: what it adds
_find_co_occurrence_relationships(datasets, det) ==
    Flatten([k \in DOMAIN datasets |->
        CoOccurrences(datasets[k].df, det, datasets[k].name,
                      EntityColumns(datasets[k].df, det, datasets[k].name))])

\* _find_reference_relationships: the references of an entity into one of its
\* further sheets
ReferencesInto(entity, df, det, other_sheet) ==
    LET cols == SelectSeq(df.columns, LAMBDA c :
            /\ get_entity_for_column(det, other_sheet, c) # Nothing
            /\ The(get_entity_for_column(det, other_sheet, c)).id # entity.id)
    IN  [k \in DOMAIN cols |->
            Relationship(entity.id, The(get_entity_for_column(det, other_sheet, cols[k])).id,
                         "references", Rat(7, 10))]

\* The references of one entity; sheets is entity.source_sheets, a list made
\* of a set, in its order
ReferencesOf(entity, sheets, datasets, det) ==
    IF Len(sheets) < 2 THEN <<>>
    ELSE Flatten([k \in 1..(Len(sheets) - 1) |->
            IF sheets[k + 1] \in Range(SheetNames(datasets))
            THEN ReferencesInto(entity, FrameOf(datasets, sheets[k + 1]), det, sheets[k + 1])
            ELSE <<>>])

\* RelationshipGraph._find_reference_relationships: what it adds
_find_reference_relationships(datasets, entities, det, sheet_order) ==
    Flatten([k \in DOMAIN entities |->
        ReferencesOf(entities[k], OrderedMatches(entities[k].source_sheets, sheet_order, 1),
                     datasets, det)])

\* abs(val - detail_sum) < 0.01 * abs(detail_sum) if detail_sum != 0 else val == 0
MatchesSum(val, detail_sum) ==
    IF detail_sum # 0 THEN 100 * Abs(val - detail_sum) < Abs(detail_sum) ELSE val = 0

\* The "aggregates" relationships of a summary sheet and a detail sheet: one
\* for every pair of numeric columns with a summary value matching the sum
Aggregations(summary_sheet, summary_df, detail_sheet, detail_df) ==
    LET pairs == Flatten([s \in DOMAIN NumericColumns(summary_df) |->
                     [d \in DOMAIN NumericColumns(detail_df) |->
                         <<NumericColumns(summary_df)[s], NumericColumns(detail_df)[d]>>]])
        found == SelectSeq(pairs, LAMBDA p :
                     \E val \in Range(DropNa(summary_df, p[1])) :
                         MatchesSum(val, SumSeq(DropNa(detail_df, p[2]))))
    IN  [k \in DOMAIN found |->
            Relationship("sheet:" \o detail_sheet, "sheet:" \o summary_sheet,
                         "aggregates", Rat(9, 10))]

\* The names of the sheets of the given roles that have data, in profile order
DataSheetsOfRoles(datasets, sheet_profiles, roles) ==
    SelectSeq([k \in DOMAIN sheet_profiles |-> sheet_profiles[k].name], LAMBDA n :
        /\ ProfileOf(sheet_profiles, n).inferred_role \in roles
        /\ n \in Range(SheetNames(datasets)))

\* RelationshipGraph._find_aggregation_relationships: what it adds
_find_aggregation_relationships(datasets, summary_sheets, detail_sheets) ==
    Flatten([s \in DOMAIN summary_sheets |->
        Flatten([d \in DOMAIN detail_sheets |->
            Aggregations(summary_sheets[s], FrameOf(datasets, summary_sheets[s]),
                         detail_sheets[d], FrameOf(datasets, detail_sheets[d]))])])

\* self.adjacency[entity.id] for every entity: the defaultdict gets an empty
\* set for an entity it did not hold
WithEntityKeys(g, entities) ==
    [ g EXCEPT !.adjacency =
        [ k \in DOMAIN g.adjacency \cup {entities[i].id : i \in DOMAIN entities} |->
            IF k \in DOMAIN g.adjacency THEN g.adjacency[k] ELSE {} ] ]

\* RelationshipGraph.build_graph: the graph after the call
build_graph(g, datasets, entities, det, sheet_profiles, sheet_order) ==
    WithEntityKeys(
        AddAll(g,
            _find_co_occurrence_relationships(datasets, det)
            \o _find_reference_relationships(datasets, entities, det, sheet_order)
            \o _find_aggregation_relationships(datasets,
                   DataSheetsOfRoles(datasets, sheet_profiles, {"summary"}),
                   DataSheetsOfRoles(datasets, sheet_profiles,
                                 {"transactional", "actual", "plan"}))),
        entities)

\* build_graph: entity.related_entities = list(self.adjacency[entity.id])
WithRelated(entities, g) ==
    [k \in DOMAIN entities |->
        [entities[k] EXCEPT !.related_entities = g.adjacency[entities[k].id]]]

\* ---- A RelationshipGraph driven by additions ----
MaxAdds == 3

GraphIds == {"a", "b", "c"}

GraphStrengths == {Rat(3, 5), Rat(9, 10)}

GraphTypes == {"co-occurs", "references"}

GraphIdle == graph = NewRelationshipGraph /\ added = <<>>

\* graph._add_relationship(rel)
AddRelationship(rel) ==
    /\ Len(added) < MaxAdds
    /\ graph' = _add_relationship(graph, rel)
    /\ added' = Append(added, rel)
    /\ UNCHANGED nonGraphVars

AddAny ==
    \E s \in GraphIds :
        \E t \in GraphIds \ {s}, ty \in GraphTypes, st \in GraphStrengths :
            AddRelationship(Relationship(s, t, ty, st))

NextGraph == AddAny

-----------------------------------------------------------------------------
(***************************************************************************)
(* Decision generation (core/decision_generator.py)                        *)
(***************************************************************************)
RatMul(p, q) == Rat(p.num * q.num, p.den * q.den)

\* min(x, 1.0) of a quotient
RatMin1(q) == IF RatLess(q, RatOfInt(1)) THEN q ELSE RatOfInt(1)

\* A formatted summary: its fixed text and the count or entity id put into it
Summary(text, count, entity) == [text |-> text, count |-> count, entity |-> entity]

\* DecisionCandidate(...); the model leaves out reasoning and supporting_evidence
DecisionCandidate(decision_type, summary, affected_entities, proposed_actions, raw_impact_score, raw_confidence, raw_urgency) ==
    [ decision_type |-> decision_type,
      summary |-> summary,
      affected_entities |-> affected_entities,
      proposed_actions |-> proposed_actions,
      raw_impact_score |-> raw_impact_score,
      raw_confidence |-> raw_confidence,
      raw_urgency |-> raw_urgency ]

\* One dict of proposed_actions: action_type, 'target' and 'estimated_impact'
\* where the dict has them ('' and 0 are what _create_decision reads otherwise)
ProposedAction(action_type, target, estimated_impact) ==
    [ action_type |-> action_type, target |-> target,
      estimated_impact |-> estimated_impact ]

\* DecisionGenerator.__init__
NewDecisionGenerator == [ decisions |-> <<>>, actions |-> <<>> ]

\* The distinct elements of a sequence in the order of their first occurrence
\* (the keys of a dict filled in that order)
RECURSIVE FirstSeen(_, _)
FirstSeen(xs, k) ==
    IF k > Len(xs) THEN <<>>
    ELSE (IF \E j \in 1..(k - 1) : xs[j] = xs[k] THEN <<>> ELSE <<xs[k]>>)
         \o FirstSeen(xs, k + 1)

\* sum(abs(g.absolute_gap) for g in gaps)
TotalGap(gaps) == SumSeq([k \in DOMAIN gaps |-> Abs(gaps[k].absolute_gap)])

\* Mutant of CriticalCandidate: the impact is not capped at 1.0.
CriticalCandidate_Uncapped(entity_id, critical_gaps) ==
    LET under_count == Cardinality({k \in DOMAIN critical_gaps :
                                       critical_gaps[k].direction = "under"})
        over_count == Cardinality({k \in DOMAIN critical_gaps :
                                      critical_gaps[k].direction = "over"})
    IN  DecisionCandidate("investigate",
            IF under_count > over_count
            THEN Summary("Underperformance detected: {n} critical gaps",
                         Len(critical_gaps), "")
            ELSE Summary("Overperformance detected: {n} critical gaps (verify targets)",
                         Len(critical_gaps), ""),
            {entity_id},
            <<ProposedAction(IF under_count > over_count THEN "increase" ELSE "optimize",
                             entity_id, TotalGap(critical_gaps))>>,
            Rat(TotalGap(critical_gaps), 1000),
            Rat(8, 10),
            Rat(9, 10))

\* _generate_gap_decisions: the candidate for an entity with critical gaps
CriticalCandidate(entity_id, critical_gaps) ==
    LET under_count == Cardinality({k \in DOMAIN critical_gaps :
                                       critical_gaps[k].direction = "under"})
        over_count == Cardinality({k \in DOMAIN critical_gaps :
                                      critical_gaps[k].direction = "over"})
    IN  DecisionCandidate("investigate",
            IF under_count > over_count
            THEN Summary("Underperformance detected: {n} critical gaps",
                         Len(critical_gaps), "")
            ELSE Summary("Overperformance detected: {n} critical gaps (verify targets)",
                         Len(critical_gaps), ""),
            {entity_id},
            <<ProposedAction(IF under_count > over_count THEN "increase" ELSE "optimize",
                             entity_id, TotalGap(critical_gaps))>>,
            RatMin1(Rat(TotalGap(critical_gaps), 1000)),
            Rat(8, 10),
            Rat(9, 10))

\* _generate_gap_decisions: the candidate for an entity with warning gaps only
WarningCandidate(entity_id, warning_gaps) ==
    DecisionCandidate("monitor",
        Summary("Potential issues: {n} metrics trending off-target", Len(warning_gaps), ""),
        {entity_id},
        <<ProposedAction("monitor", entity_id, 0)>>,
        Rat(3, 10), Rat(7, 10), Rat(4, 10))

\* _generate_gap_decisions: the candidates for the gaps of one entity
EntityGapCandidates(entity_id, critical_gaps, warning_gaps) ==
    (IF critical_gaps # <<>> THEN <<CriticalCandidate(entity_id, critical_gaps)>> ELSE <<>>)
    \o (IF warning_gaps # <<>> /\ critical_gaps = <<>>
        THEN <<WarningCandidate(entity_id, warning_gaps)>> ELSE <<>>)

\* The gaps of an entity that have a severity
GapsWith(gaps, entity_id, severity) ==
    SelectSeq(gaps, LAMBDA g : g.entity_id = entity_id /\ g.severity = severity)

\* DecisionGenerator._generate_gap_decisions
_generate_gap_decisions(context) ==
    LET ids == FirstSeen([k \in DOMAIN context.gaps |-> context.gaps[k].entity_id], 1)
    IN  Flatten([k \in DOMAIN ids |->
            EntityGapCandidates(ids[k],
                                GapsWith(context.gaps, ids[k], "critical"),
                                GapsWith(context.gaps, ids[k], "warning"))])

\* c.entity_id or 'global'
EntityKey(c) ==
    IF c.entity_id = Nothing \/ c.entity_id = Some("") THEN "global" ELSE The(c.entity_id)

\* Mutant of ConstraintCandidate: a blocking constraint is looked for before a
\* deadline constraint.
ConstraintCandidate_BlockingFirst(entity_id, types) ==
    DecisionCandidate(
        IF "blocking" \in types THEN "resolve"
        ELSE IF "deadline" \in types THEN "escalate" ELSE "sequence",
        IF "blocking" \in types
        THEN Summary("Blocking issue requires resolution for {entity_id}", 0, entity_id)
        ELSE IF "deadline" \in types
        THEN Summary("Deadline constraint detected for {entity_id}", 0, entity_id)
        ELSE Summary("Dependency constraint needs sequencing for {entity_id}", 0, entity_id),
        IF entity_id # "global" THEN {entity_id} ELSE {},
        <<ProposedAction("resolve_constraint", entity_id, 0)>>,
        Rat(7, 10),
        Rat(6, 10),
        IF "blocking" \in types THEN Rat(85, 100)
        ELSE IF "deadline" \in types THEN Rat(95, 100) ELSE Rat(6, 10))

\* _generate_constraint_decisions: the candidate for the blocking, deadline
\* and dependency constraints of one entity key
ConstraintCandidate(entity_id, types) ==
    DecisionCandidate(
        IF "deadline" \in types THEN "escalate"
        ELSE IF "blocking" \in types THEN "resolve" ELSE "sequence",
        IF "deadline" \in types
        THEN Summary("Deadline constraint detected for {entity_id}", 0, entity_id)
        ELSE IF "blocking" \in types
        THEN Summary("Blocking issue requires resolution for {entity_id}", 0, entity_id)
        ELSE Summary("Dependency constraint needs sequencing for {entity_id}", 0, entity_id),
        IF entity_id # "global" THEN {entity_id} ELSE {},
        <<ProposedAction("resolve_constraint", entity_id, 0)>>,
        Rat(7, 10),
        Rat(6, 10),
        IF "deadline" \in types THEN Rat(95, 100)
        ELSE IF "blocking" \in types THEN Rat(85, 100) ELSE Rat(6, 10))

\* _generate_constraint_decisions: the candidate for the resource constraints
ResourceCandidate(resource_constraints) ==
    DecisionCandidate("allocate",
        Summary("Resource constraints detected across {n} items",
                Len(resource_constraints), ""),
        {The(resource_constraints[k].entity_id) :
            k \in {j \in DOMAIN resource_constraints :
                      /\ resource_constraints[j].entity_id # Nothing
                      /\ resource_constraints[j].entity_id # Some("")}},
        <<ProposedAction("reallocate", "", 0)>>,
        Rat(5, 10), Rat(65, 100), Rat(5, 10))

\* The constraint types found under one entity key
TypesOf(blocking, entity_id) ==
    {blocking[k].constraint_type : k \in {j \in DOMAIN blocking : EntityKey(blocking[j]) = entity_id}}

\* The candidates for the constraints of the three blocking kinds
BlockingCandidates(blocking) ==
    LET keys == FirstSeen([k \in DOMAIN blocking |-> EntityKey(blocking[k])], 1)
    IN  [k \in DOMAIN keys |-> ConstraintCandidate(keys[k], TypesOf(blocking, keys[k]))]

\* The candidate for the resource constraints, if there are any
ResourceCandidates(resource_constraints) ==
    IF resource_constraints # <<>> THEN <<ResourceCandidate(resource_constraints)>> ELSE <<>>

\* DecisionGenerator._generate_constraint_decisions
_generate_constraint_decisions(context) ==
    BlockingCandidates(SelectSeq(context.constraints, LAMBDA c :
        c.constraint_type \in {"blocking", "deadline", "dependency"}))
    \o ResourceCandidates(SelectSeq(context.constraints, LAMBDA c :
        c.constraint_type = "resource"))

\* _generate_pattern_decisions: the candidate for under_count "under" gaps
\* among n gaps (under_ratio > 0.7, or under_ratio < 0.3)
PatternCandidates(gaps, under_count, n) ==
    IF 10 * under_count > 7 * n
    THEN <<DecisionCandidate("investigate_systemic",
               Summary("Systemic underperformance pattern detected", 0, ""),
               {gaps[k].entity_id : k \in DOMAIN gaps},
               <<ProposedAction("root_cause_analysis", "", 0)>>,
               Rat(9, 10), Rat(7, 10), Rat(8, 10))>>
    ELSE IF 10 * under_count < 3 * n
    THEN <<DecisionCandidate("verify_targets",
               Summary("Widespread overperformance suggests target review needed", 0, ""),
               {},
               <<ProposedAction("adjust_targets", "", 0)>>,
               Rat(5, 10), Rat(6, 10), Rat(3, 10))>>
    ELSE <<>>

\* DecisionGenerator._generate_pattern_decisions
_generate_pattern_decisions(context) ==
    IF context.gaps = <<>> THEN <<>>
    ELSE PatternCandidates(context.gaps,
             Cardinality({k \in DOMAIN context.gaps : context.gaps[k].direction = "under"}),
             Len(context.gaps))

\* list(related)[:5]: the first five of a set in its iteration order
FirstFive(ordered) ==
    {ordered[k] : k \in {j \in DOMAIN ordered : j <= 5}}

\* _generate_relationship_decisions: the candidate for a critical gap whose
\* entity has more than two related entities
RelationshipCandidate(gap, related, hash_order) ==
    DecisionCandidate("prioritize",
        Summary("High-impact entity '{entity_id}' affects {n} related items",
                Cardinality(related), gap.entity_id),
        {gap.entity_id} \cup FirstFive(OrderedMatches(related, hash_order, 1)),
        <<ProposedAction("prioritize_fix", gap.entity_id, 0)>>,
        RatMin1(Rat(Cardinality(related), 10)),
        Rat(75, 100), Rat(85, 100))

\* DecisionGenerator._generate_relationship_decisions
_generate_relationship_decisions(context, relationship_graph, hash_order) ==
    LET critical == SelectSeq(context.gaps, LAMBDA g :
            /\ g.severity = "critical"
            /\ Cardinality(get_related_entities(relationship_graph, g.entity_id)) > 2)
    IN  [k \in DOMAIN critical |->
            RelationshipCandidate(critical[k],
                get_related_entities(relationship_graph, critical[k].entity_id),
                hash_order)]

\* 0.4 * raw_impact_score + 0.3 * raw_urgency + 0.3 * raw_confidence
CompositeScore(impact, urgency, confidence) ==
    RatAdd(RatMul(Rat(4, 10), impact),
           RatAdd(RatMul(Rat(3, 10), urgency), RatMul(Rat(3, 10), confidence)))

\* Mutant of InsertByScore: x is put in front of the elements of equal score.
RECURSIVE InsertByScore_BeforeEquals(_, _, _)
InsertByScore_BeforeEquals(sorted, x, score) ==
    IF sorted = <<>> THEN <<x>>
    ELSE IF RatLeq(score[Head(sorted)], score[x])
         THEN <<x>> \o sorted
         ELSE <<Head(sorted)>> \o InsertByScore_BeforeEquals(Tail(sorted), x, score)

\* A sequence with x put behind the last element whose score is not below x's
\* (sort with reverse=True keeps equal elements in their order)
RECURSIVE InsertByScore(_, _, _)
InsertByScore(sorted, x, score) ==
    IF sorted = <<>> THEN <<x>>
    ELSE IF RatLess(score[Head(sorted)], score[x])
         THEN <<x>> \o sorted
         ELSE <<Head(sorted)>> \o InsertByScore(Tail(sorted), x, score)

\* The indices 1..n sorted by decreasing score, equal scores in index order
RECURSIVE RankedIndices(_, _)
RankedIndices(n, score) ==
    IF n = 0 THEN <<>> ELSE InsertByScore(RankedIndices(n - 1, score), n, score)

\* DecisionGenerator._score_and_rank
_score_and_rank(candidates) ==
    LET ranked == RankedIndices(Len(candidates),
                      [k \in DOMAIN candidates |->
                          CompositeScore(candidates[k].raw_impact_score,
                                         candidates[k].raw_urgency,
                                         candidates[k].raw_confidence)])
    IN  [k \in DOMAIN ranked |-> candidates[ranked[k]]]

\* The first n elements of a sequence (xs[:n])
Take(xs, n) == [k \in 1..Min(n, Len(xs)) |-> xs[k]]

\* _create_decision: the Action objects of a candidate
ActionsOf(candidate) ==
    [k \in DOMAIN candidate.proposed_actions |->
        [ action_type |-> candidate.proposed_actions[k].action_type,
          target_entity_id |-> candidate.proposed_actions[k].target,
          estimated_impact |-> candidate.proposed_actions[k].estimated_impact,
          confidence |-> candidate.raw_confidence ]]

\* DecisionGenerator._create_decision
_create_decision(candidate, context) ==
    [ decision_type |-> candidate.decision_type,
      summary |-> candidate.summary,
      actions |-> ActionsOf(candidate),
      supporting_gaps |->
          Take(SelectSeq(context.gaps, LAMBDA g :
                   g.entity_id \in candidate.affected_entities), 10),
      supporting_constraints |->
          Take(SelectSeq(context.constraints, LAMBDA c :
                   \/ c.entity_id = Nothing
                   \/ The(c.entity_id) \in candidate.affected_entities), 10),
      impact_score |-> candidate.raw_impact_score,
      confidence_score |-> candidate.raw_confidence,
      urgency_score |-> candidate.raw_urgency ]

\* generate_decisions: the candidates of the four strategies, in order
AllCandidates(context, relationship_graph, hash_order) ==
    _generate_gap_decisions(context)
    \o _generate_constraint_decisions(context)
    \o _generate_pattern_decisions(context)
    \o _generate_relationship_decisions(context, relationship_graph, hash_order)

\* The decisions made of the ranked candidates
DecisionsOf(ranked, context) ==
    [k \in DOMAIN ranked |-> _create_decision(ranked[k], context)]

\* The generator after the decisions: self.decisions replaced, the actions of
\* the decisions appended to self.actions
WithDecisions(generator, decisions) ==
    [ decisions |-> decisions,
      actions |-> generator.actions
                  \o Flatten([k \in DOMAIN decisions |-> decisions[k].actions]) ]

\* DecisionGenerator.generate_decisions: the generator after the call.
\* hash_order is the order in which the sets of related ids are iterated.
generate_decisions(generator, context, relationship_graph, hash_order) ==
    WithDecisions(generator,
        DecisionsOf(_score_and_rank(AllCandidates(context, relationship_graph, hash_order)),
                    context))

\* DecisionGenerator.get_top_decisions
get_top_decisions(generator, n) ==
    LET ranked == RankedIndices(Len(generator.decisions),
                      [k \in DOMAIN generator.decisions |->
                          RatAdd(generator.decisions[k].urgency_score,
                                 RatAdd(generator.decisions[k].impact_score,
                                        generator.decisions[k].confidence_score))])
    IN  Take([k \in DOMAIN ranked |-> generator.decisions[ranked[k]]], n)

\* ---- One call of generate_decisions on inputs from bounded sets ----
MaxGaps == 2

\* Gaps of two entities: a large or a moderate shortfall or a small excess, as
\* the difference columns give them (direction by the sign of the gap)
GapInputs ==
    {[ entity_id |-> e, metric_name |-> "Target",
       plan_value |-> Nothing, actual_value |-> Nothing,
       absolute_gap |-> a, percentage_gap |-> RatOfInt(0),
       direction |-> IF a < 0 THEN "under" ELSE "over", severity |-> sev ] :
        e \in {"e1", "e2"}, a \in {-5000, -750, 300}, sev \in {"critical", "warning"}}

\* The lists of n gaps
GapLists(n) == [1..n -> GapInputs]

AConstraint(entity_id, constraint_type) ==
    [ entity_id |-> entity_id, constraint_type |-> constraint_type,
      description |-> "", source_text |-> "", source_sheet |-> "Sheet1",
      source_column |-> "Status", severity |-> "medium" ]

ConstraintLists ==
    { <<>>,
      <<AConstraint(Some("e1"), "blocking")>>,
      <<AConstraint(Nothing, "deadline"), AConstraint(Some("e2"), "resource")>>,
      <<AConstraint(Some("e1"), "dependency"), AConstraint(Nothing, "resource")>>,
      <<AConstraint(Some("e1"), "blocking"), AConstraint(Some("e1"), "deadline"),
        AConstraint(Some("e2"), "dependency")>>,
      <<AConstraint(Nothing, "dependency"), AConstraint(Nothing, "blocking"),
        AConstraint(Some("e2"), "deadline")>> }

\* The ids e1 can be related to
NeighbourIds == <<"e2", "n1", "n2", "n3", "n4", "n5", "n6", "n7", "n8", "n9", "n10">>

\* A graph in which e1 has the first n of them as neighbours
RECURSIVE GraphWith(_)
GraphWith(n) ==
    IF n = 0 THEN NewRelationshipGraph
    ELSE _add_relationship(GraphWith(n - 1),
             Relationship("e1", NeighbourIds[n], "co-occurs", Rat(9, 10)))

\* Graphs with few and with many neighbours; for the one with more than five,
\* two iteration orders of the set of neighbours
GraphInputs ==
    {[graph |-> GraphWith(n), hash_order |-> NeighbourIds] : n \in {0, 2, 3, 11}}
    \cup {[graph |-> GraphWith(11),
           hash_order |-> [k \in DOMAIN NeighbourIds |->
                              NeighbourIds[Len(NeighbourIds) + 1 - k]]]}

DecisionIdle == dcall = [context |-> None] /\ dret = Nothing

DecisionInit ==
    /\ \E n \in 0..MaxGaps :
           dcall \in {[context |-> [gaps |-> gs, constraints |-> cs],
                       graph |-> gi.graph, hash_order |-> gi.hash_order] :
                         gs \in GapLists(n), cs \in ConstraintLists, gi \in GraphInputs}
    /\ dret = Nothing

\* DecisionGenerator().generate_decisions(context, relationship_graph)
CallGenerateDecisions ==
    /\ dret = Nothing
    /\ dret' = Some(generate_decisions(NewDecisionGenerator, dcall.context,
                                       dcall.graph, dcall.hash_order))
    /\ UNCHANGED dcall
    /\ UNCHANGED nonDecisionVars

NextDecisions == CallGenerateDecisions

-----------------------------------------------------------------------------
(***************************************************************************)
(* Decision grouping (core/decision_grouper.py)                            *)
(*                                                                         *)
(* A decision dict is modelled by its id, its decision_type, its three     *)
(* scores, and, in place of its texts, by what the grouper reads from      *)
(* them: the gap metrics its summary, reasoning or evidence mention        *)
(* (metrics) and the entity names its summary or evidence mention          *)
(* (entities).  Headline and summary texts of a theme are left out.        *)
(***************************************************************************)
\* DecisionGroupingEngine.__init__
NewDecisionGroupingEngine == [ themes |-> <<>>, theme_index |-> <<>> ]

\* DecisionGroupingEngine._get_root_cause_name
_get_root_cause_name(decision_type) ==
    CASE decision_type = "investigate" -> "Performance Investigation Required"
      [] decision_type = "investigate_systemic" -> "Systemic Issues Detected"
      [] decision_type = "escalate" -> "Escalation Required"
      [] decision_type = "monitor" -> "Active Monitoring Needed"
      [] decision_type = "resolve" -> "Resolution Actions Pending"
      [] decision_type = "prioritize" -> "Prioritization Decisions"
      [] decision_type = "allocate" -> "Resource Allocation Issues"
      [] decision_type = "sequence" -> "Dependency Management"
      [] decision_type = "verify_targets" -> "Target Calibration Review"
      [] OTHER -> decision_type

\* metric.replace("_", " ").title() on the metric names of the inputs
_format_metric_name(metric) ==
    CASE metric = "revenue" -> "Revenue"
      [] metric = "unit_cost" -> "Unit Cost"

\* entity.title() + " Portfolio" on the entity names of the inputs
PortfolioName(entity) ==
    CASE entity = "north" -> "North Portfolio"

\* DecisionGroupingEngine._calculate_theme_severity
_calculate_theme_severity(avg_impact, max_urgency) ==
    LET score == RatMul(RatAdd(avg_impact, max_urgency), Rat(1, 2))
    IN  IF RatLeq(Rat(7, 10), score) THEN "critical"
        ELSE IF RatLeq(Rat(4, 10), score) THEN "warning"
        ELSE "normal"

\* max(...) of a non-empty sequence of quotients
RECURSIVE RatMax(_)
RatMax(qs) ==
    IF Len(qs) = 1 THEN qs[1]
    ELSE IF RatLess(RatMax(Tail(qs)), Head(qs)) THEN Head(qs) ELSE RatMax(Tail(qs))

\* max(group, key=impact_score): the first decision of the largest impact
Representative(group) ==
    group[CHOOSE k \in DOMAIN group :
              /\ \A j \in DOMAIN group :
                     RatLeq(group[j].impact_score, group[k].impact_score)
              /\ \A j \in 1..(k - 1) :
                     RatLess(group[j].impact_score, group[k].impact_score)]

\* The aggregates _create_theme computes, put into a DecisionTheme
DecisionTheme(group, theme_type, theme_name, id_prefix, total_impact, max_urgency) ==
    [ id |-> [id_prefix |-> id_prefix, id_hash |-> {group[k].id : k \in DOMAIN group}],
      theme_name |-> theme_name,
      theme_type |-> theme_type,
      decision_count |-> Len(group),
      total_impact |-> total_impact,
      avg_confidence |-> RatMul(RatSum([k \in DOMAIN group |-> group[k].confidence_score]),
                                Rat(1, Len(group))),
      max_urgency |-> max_urgency,
      severity |-> _calculate_theme_severity(RatMul(total_impact, Rat(1, Len(group))),
                                             max_urgency),
      decision_ids |-> [k \in DOMAIN group |-> group[k].id],
      representative_decision |-> Representative(group).id ]

\* DecisionGroupingEngine._create_theme, for a group that is not empty
_create_theme(group, theme_type, theme_name, id_prefix) ==
    DecisionTheme(group, theme_type, theme_name, id_prefix,
                  RatSum([k \in DOMAIN group |-> group[k].impact_score]),
                  RatMax([k \in DOMAIN group |-> group[k].urgency_score]))

\* DecisionGroupingEngine._group_by_root_cause
_group_by_root_cause(decisions) ==
    LET types == FirstSeen([k \in DOMAIN decisions |-> decisions[k].decision_type], 1)
        kept == SelectSeq(types, LAMBDA t :
                    Cardinality({k \in DOMAIN decisions : decisions[k].decision_type = t}) >= 2)
    IN  [k \in DOMAIN kept |->
            _create_theme(SelectSeq(decisions, LAMBDA d : d.decision_type = kept[k]),
                          "root_cause", _get_root_cause_name(kept[k]), "rc_" \o kept[k])]

\* The keys of metric_decisions (or entity_decisions) in insertion order: by
\* the first decision that mentions the key, the keys of one decision in the
\* iteration order of the set
RECURSIVE KeysInOrder(_, _, _)
KeysInOrder(mentions, hash_order, k) ==
    IF k > Len(mentions) THEN <<>>
    ELSE LET earlier == UNION {mentions[j] : j \in 1..(k - 1)}
         IN  OrderedMatches(mentions[k] \ earlier, hash_order, 1)
             \o KeysInOrder(mentions, hash_order, k + 1)

\* DecisionGroupingEngine._group_by_metric, gaps given and naming the metrics
_group_by_metric(decisions, hash_order) ==
    LET keys == KeysInOrder([k \in DOMAIN decisions |-> decisions[k].metrics], hash_order, 1)
        kept == SelectSeq(keys, LAMBDA mt :
                    Cardinality({k \in DOMAIN decisions : mt \in decisions[k].metrics}) >= 2)
    IN  [k \in DOMAIN kept |->
            _create_theme(SelectSeq(decisions, LAMBDA d : kept[k] \in d.metrics),
                          "metric", _format_metric_name(kept[k]), "metric_" \o kept[k])]

\* DecisionGroupingEngine._group_by_entity_cluster, entities given
_group_by_entity_cluster(decisions, hash_order) ==
    LET keys == KeysInOrder([k \in DOMAIN decisions |-> decisions[k].entities], hash_order, 1)
        kept == SelectSeq(keys, LAMBDA en :
                    Cardinality({k \in DOMAIN decisions : en \in decisions[k].entities}) >= 2)
    IN  [k \in DOMAIN kept |->
            _create_theme(SelectSeq(decisions, LAMBDA d : kept[k] \in d.entities),
                          "entity_cluster", PortfolioName(kept[k]), "entity_" \o kept[k])]

\* _merge_themes: overlap = len(decision_set & seen_set) / max(len(decision_set), 1)
\* is above 0.8 for a set seen before
IsDuplicate(decision_set, seen_decision_sets) ==
    \E seen_set \in seen_decision_sets :
        5 * Cardinality(decision_set \cap seen_set) > 4 * Max(Cardinality(decision_set), 1)

\* _merge_themes over the concatenated theme lists: the themes kept among the
\* first k
RECURSIVE MergedUpTo(_, _)
MergedUpTo(themes, k) ==
    IF k = 0 THEN <<>>
    ELSE IF IsDuplicate(Range(themes[k].decision_ids),
                        {Range(t.decision_ids) : t \in Range(MergedUpTo(themes, k - 1))})
         THEN MergedUpTo(themes, k - 1)
         ELSE Append(MergedUpTo(themes, k - 1), themes[k])

\* DecisionGroupingEngine._merge_themes
_merge_themes(root_cause_themes, metric_themes, entity_themes) ==
    MergedUpTo(root_cause_themes \o metric_themes \o entity_themes,
               Len(root_cause_themes) + Len(metric_themes) + Len(entity_themes))

\* (a.max_urgency, a.total_impact) < (b.max_urgency, b.total_impact)
ThemeKeyLess(a, b) ==
    \/ RatLess(a.max_urgency, b.max_urgency)
    \/ a.max_urgency = b.max_urgency /\ RatLess(a.total_impact, b.total_impact)

\* all_themes.sort(key=(max_urgency, total_impact), reverse=True): x put behind
\* the last theme whose key is not below x's
RECURSIVE InsertTheme(_, _)
InsertTheme(sorted, x) ==
    IF sorted = <<>> THEN <<x>>
    ELSE IF ThemeKeyLess(Head(sorted), x) THEN <<x>> \o sorted
         ELSE <<Head(sorted)>> \o InsertTheme(Tail(sorted), x)

RECURSIVE SortedThemes(_, _)
SortedThemes(themes, k) ==
    IF k = 0 THEN <<>> ELSE InsertTheme(SortedThemes(themes, k - 1), themes[k])

\* DecisionGroupingEngine._generate_summary
_generate_summary(decisions, themes) ==
    [ total_decisions |-> Len(decisions),
      total_themes |-> Len(themes),
      themes_by_type |->
          [ty \in {themes[k].theme_type : k \in DOMAIN themes} |->
              Cardinality({k \in DOMAIN themes : themes[k].theme_type = ty})],
      critical_themes |-> Cardinality({k \in DOMAIN themes : themes[k].severity = "critical"}),
      total_impact |-> RatSum([k \in DOMAIN themes |-> themes[k].total_impact]) ]

\* The engine and the return value of group_decisions for the merged themes
Grouped(decisions, merged) ==
    [ themes |-> SortedThemes(merged, Len(merged)),
      theme_index |-> {t.id : t \in Range(merged)},
      summary |-> _generate_summary(decisions, merged) ]

\* DecisionGroupingEngine.group_decisions with gaps and entities given:
\* self.themes, the ids of self.theme_index and the summary returned
group_decisions(decisions, metric_order, entity_order) ==
    IF decisions = <<>>
    THEN [ themes |-> <<>>, theme_index |-> {},
           summary |-> [ total_decisions |-> 0, total_themes |-> 0,
                         themes_by_type |-> <<>>, critical_themes |-> 0,
                         total_impact |-> RatOfInt(0) ] ]
    ELSE Grouped(decisions,
                 _merge_themes(_group_by_root_cause(decisions),
                               _group_by_metric(decisions, metric_order),
                               _group_by_entity_cluster(decisions, entity_order)))

\* ---- One call of group_decisions on inputs from bounded sets ----
MaxDecisions == 3

GroupedIds == <<"d1", "d2", "d3", "d4", "d5">>

MetricNames == {"revenue", "unit_cost"}

EntityNames == {"north"}

\* What a decision can be apart from its id: an "investigate" or a "monitor"
\* decision with the scores the generator gives these
DecisionKinds ==
    {[ decision_type |-> ty.decision_type, metrics |-> ms, entities |-> es,
       impact_score |-> ty.impact_score, confidence_score |-> ty.confidence_score,
       urgency_score |-> ty.urgency_score ] :
        ty \in { [decision_type |-> "investigate", impact_score |-> RatOfInt(1),
                  confidence_score |-> Rat(8, 10), urgency_score |-> Rat(9, 10)],
                 [decision_type |-> "monitor", impact_score |-> Rat(3, 10),
                  confidence_score |-> Rat(7, 10), urgency_score |-> Rat(4, 10)] },
        ms \in SUBSET MetricNames, es \in SUBSET EntityNames}

WithId(kind, k) ==
    [ id |-> GroupedIds[k], decision_type |-> kind.decision_type,
      metrics |-> kind.metrics, entities |-> kind.entities,
      impact_score |-> kind.impact_score, confidence_score |-> kind.confidence_score,
      urgency_score |-> kind.urgency_score ]

\* The lists of n decisions, with the ids d1, d2, ... in order
DecisionLists(n) ==
    {[k \in 1..n |-> WithId(kinds[k], k)] : kinds \in [1..n -> DecisionKinds]}

GroupingIdle == tcall = [decisions |-> None] /\ tret = Nothing

GroupingInit ==
    /\ \E n \in 0..MaxDecisions :
           tcall \in {[decisions |-> ds, metric_order |-> mo] :
                         ds \in DecisionLists(n), mo \in SetOrders(MetricNames)}
    /\ tret = Nothing

\* DecisionGroupingEngine().group_decisions(decisions, entities, gaps)
CallGroupDecisions ==
    /\ tret = Nothing
    /\ tret' = Some(group_decisions(tcall.decisions, tcall.metric_order,
                                    SortedByRank(EntityNames, [e \in EntityNames |-> 0])))
    /\ UNCHANGED tcall
    /\ UNCHANGED nonGroupingVars

NextGrouping == CallGroupDecisions

-----------------------------------------------------------------------------
(***************************************************************************)
(* The analysis pipeline (core/decision_engine.py)                         *)
(***************************************************************************)
\* ---- Python floats at the output boundary ----
\* A float is a finite number, NaN or an infinity; a value handed to
\* _safe_float is None (Nothing) or a float (Some(f)).
Finite(x) == [kind |-> "finite", value |-> x]

NaN == [kind |-> "nan", value |-> 0]

Infinity == [kind |-> "inf", value |-> 0]

NegInfinity == [kind |-> "-inf", value |-> 0]

\* A value float() raises on
Unconvertible == [kind |-> "unconvertible", value |-> 0]

\* Mutant of _safe_float: only NaN is replaced.
_safe_float_KeepsInfinity(value) ==
    IF value = Nothing THEN Nothing
    ELSE IF The(value).kind = "unconvertible" THEN Nothing
    ELSE IF The(value).kind = "nan" THEN Nothing
    ELSE value

\* DecisionIntelligenceEngine._safe_float
_safe_float(value) ==
    IF value = Nothing THEN Nothing
    ELSE IF The(value).kind = "unconvertible" THEN Nothing
    ELSE IF The(value).kind = "nan" \/ The(value).kind \in {"inf", "-inf"} THEN Nothing
    ELSE value

\* The numbers of the model as Python values: x, or None for Nothing
AsFloat(x) == Some(Finite(x))

OptionalAsFloat(opt) == IF opt = Nothing THEN Nothing ELSE AsFloat(The(opt))

\* The Gap, Plan, Actual, Decision and SheetProfile objects of the model with
\* their numbers as Python values
GapObjects(gaps) ==
    [k \in DOMAIN gaps |->
        [ entity_id |-> gaps[k].entity_id, metric_name |-> gaps[k].metric_name,
          plan_value |-> OptionalAsFloat(gaps[k].plan_value),
          actual_value |-> OptionalAsFloat(gaps[k].actual_value),
          absolute_gap |-> AsFloat(gaps[k].absolute_gap),
          percentage_gap |-> AsFloat(gaps[k].percentage_gap),
          direction |-> gaps[k].direction, severity |-> gaps[k].severity ]]

PlanObjects(plans) ==
    [k \in DOMAIN plans |-> [plans[k] EXCEPT !.target_value = AsFloat(@)]]

ActualObjects(actuals) ==
    [k \in DOMAIN actuals |-> [actuals[k] EXCEPT !.actual_value = AsFloat(@)]]

DecisionObjects(decisions) ==
    [k \in DOMAIN decisions |->
        [decisions[k] EXCEPT !.impact_score = AsFloat(@),
                             !.confidence_score = AsFloat(@),
                             !.urgency_score = AsFloat(@)]]

ProfileObjects(sheet_profiles) ==
    [k \in DOMAIN sheet_profiles |-> [sheet_profiles[k] EXCEPT !.confidence = AsFloat(@)]]

\* ---- The result ----
\* _build_result: "; ".join of the summaries of the top decisions, or the
\* message for none; the model keeps the joined summaries as a sequence
TopSummary(top_decisions) ==
    IF top_decisions # <<>>
    THEN [ message |-> "", joined |-> [k \in DOMAIN top_decisions |-> top_decisions[k].summary] ]
    ELSE [ message |-> "No significant decision candidates identified", joined |-> <<>> ]

\* DecisionIntelligenceEngine._build_result: the AnalysisResult, without the
\* generated ids of gaps, constraints and decisions and without analyzed_at
_build_result(dataset_id, sheet_count, sheet_profiles, entities, entity_graph, gaps, plans, actuals, constraints, decisions, top_decisions, processing_notes) ==
    [ dataset_id |-> dataset_id,
      sheet_count |-> sheet_count,
      sheet_roles |-> [k \in DOMAIN sheet_profiles |->
                          <<sheet_profiles[k].name, sheet_profiles[k].inferred_role>>],
      sheet_profiles |-> [k \in DOMAIN sheet_profiles |->
          [ name |-> sheet_profiles[k].name,
            row_count |-> sheet_profiles[k].row_count,
            col_count |-> sheet_profiles[k].col_count,
            inferred_role |-> sheet_profiles[k].inferred_role,
            confidence |-> _safe_float(sheet_profiles[k].confidence),
            has_aggregations |-> sheet_profiles[k].has_aggregations,
            has_comparisons |-> sheet_profiles[k].has_comparisons,
            temporal_coverage |-> sheet_profiles[k].temporal_coverage ]],
      entity_count |-> Len(entities),
      entities |-> [k \in DOMAIN entities |->
          [ id |-> entities[k].id,
            canonical_name |-> entities[k].canonical_name,
            source_columns |-> entities[k].source_columns,
            source_sheets |-> entities[k].source_sheets,
            cardinality |-> entities[k].cardinality,
            is_primary |-> entities[k].is_primary,
            related_count |-> Cardinality(entities[k].related_entities) ]],
      entity_graph |-> entity_graph,
      gap_count |-> Len(gaps),
      critical_gaps |-> Cardinality({k \in DOMAIN gaps : gaps[k].severity = "critical"}),
      gaps |-> [k \in DOMAIN gaps |->
          [ entity_id |-> gaps[k].entity_id,
            metric_name |-> gaps[k].metric_name,
            plan_value |-> _safe_float(gaps[k].plan_value),
            actual_value |-> _safe_float(gaps[k].actual_value),
            absolute_gap |-> _safe_float(gaps[k].absolute_gap),
            percentage_gap |-> _safe_float(gaps[k].percentage_gap),
            direction |-> gaps[k].direction,
            severity |-> gaps[k].severity ]],
      plans |-> [k \in DOMAIN plans |->
          [ entity_id |-> plans[k].entity_id,
            metric_name |-> plans[k].metric_name,
            target_value |-> _safe_float(plans[k].target_value),
            source_sheet |-> plans[k].source_sheet ]],
      actuals |-> [k \in DOMAIN actuals |->
          [ entity_id |-> actuals[k].entity_id,
            metric_name |-> actuals[k].metric_name,
            actual_value |-> _safe_float(actuals[k].actual_value),
            source_sheet |-> actuals[k].source_sheet ]],
      constraint_count |-> Len(constraints),
      blocking_constraints |->
          Cardinality({k \in DOMAIN constraints :
              constraints[k].constraint_type \in {"blocking", "deadline"}}),
      constraints |-> [k \in DOMAIN constraints |->
          [ entity_id |-> constraints[k].entity_id,
            constraint_type |-> constraints[k].constraint_type,
            description |-> constraints[k].description,
            source_text |-> constraints[k].source_text,
            severity |-> constraints[k].severity ]],
      decision_count |-> Len(decisions),
      decisions |-> [k \in DOMAIN decisions |->
          [ decision_type |-> decisions[k].decision_type,
            summary |-> decisions[k].summary,
            impact_score |-> _safe_float(decisions[k].impact_score),
            confidence_score |-> _safe_float(decisions[k].confidence_score),
            urgency_score |-> _safe_float(decisions[k].urgency_score),
            action_count |-> Len(decisions[k].actions),
            supporting_gap_count |-> Len(decisions[k].supporting_gaps),
            supporting_constraint_count |-> Len(decisions[k].supporting_constraints) ]],
      top_decision_summary |-> TopSummary(top_decisions),
      processing_notes |-> processing_notes ]

\* ---- The workbooks handed to analyze() ----
\* The cells of a column without nulls
Cells(values) == [i \in DOMAIN values |-> Some(values[i])]

\* A sheet as pd.read_excel returns it: index 0..n-1, the columns in order
Frame(cols) ==
    [ index |-> [i \in DOMAIN cols[1].cells |-> i - 1], cols |-> cols ]

BudgetSheet ==
    [ name |-> "Budget",
      df |-> Frame(<<
        [ name |-> "Region", dtype |-> "object",
          cells |-> Cells(<<
                "North", "South", "East">>) ],
        [ name |-> "Period", dtype |-> "datetime64",
          cells |-> Cells(<<
                90, 90, 90>>) ],
        [ name |-> "Target", dtype |-> "int64",
          cells |-> Cells(<<
                100, 80, 60>>) ]>>) ]

BudgetSheetAsExported ==
    [ name |-> "Budget",
      df |-> Frame(<<
        [ name |-> "Unnamed: 0", dtype |-> "int64",
          cells |-> Cells(<<
                0, 1, 2>>) ],
        [ name |-> " Region ", dtype |-> "object",
          cells |-> Cells(<<
                "North", "South", "East">>) ],
        [ name |-> "Period", dtype |-> "datetime64",
          cells |-> Cells(<<
                90, 90, 90>>) ],
        [ name |-> "Target ", dtype |-> "int64",
          cells |-> Cells(<<
                100, 80, 60>>) ]>>) ]

SalesSheet ==
    [ name |-> "Sales",
      df |-> Frame(<<
        [ name |-> "Region", dtype |-> "object",
          cells |-> Cells(<<
                "North", "South", "North">>) ],
        [ name |-> "Period", dtype |-> "datetime64",
          cells |-> Cells(<<
                -60, -60, -60>>) ],
        [ name |-> "Actual", dtype |-> "int64",
          cells |-> Cells(<<
                70, 90, 70>>) ]>>) ]

SalesByAreaSheet ==
    [ name |-> "Sales",
      df |-> Frame(<<
        [ name |-> "Area", dtype |-> "object",
          cells |-> Cells(<<
                "North", "South", "North">>) ],
        [ name |-> "Period", dtype |-> "datetime64",
          cells |-> Cells(<<
                -60, -60, -60>>) ],
        [ name |-> "Actual", dtype |-> "int64",
          cells |-> Cells(<<
                70, 90, 70>>) ]>>) ]

OfficesSheet ==
    [ name |-> "Offices",
      df |-> Frame(<<
        [ name |-> "Office", dtype |-> "object",
          cells |-> Cells(<<
                "North", "Central Warehouse 12", "Regional Depot West 7",
                "Harbour Office Block 3", "Airport Logistics Hub 5">>) ]>>) ]

ReviewSheet ==
    [ name |-> "Review",
      df |-> Frame(<<
        [ name |-> "Team", dtype |-> "object",
          cells |-> Cells(<<
                "Alpha", "Bravo", "Delta", "Gamma">>) ],
        [ name |-> "Planned", dtype |-> "int64",
          cells |-> Cells(<<
                10, 20, 30, 30>>) ],
        [ name |-> "Achieved", dtype |-> "int64",
          cells |-> Cells(<<
                10, 30, 50, 50>>) ],
        [ name |-> "Variance", dtype |-> "int64",
          cells |-> Cells(<<
                -2, 2, -2, 2>>) ]>>) ]

MetricsSheet ==
    [ name |-> "Metrics",
      df |-> Frame(<<
        [ name |-> "Planned", dtype |-> "int64",
          cells |-> Cells(<<
                10, 20, 20, 30>>) ],
        [ name |-> "Achieved", dtype |-> "int64",
          cells |-> Cells(<<
                10, 30, 30, 50>>) ]>>) ]

ProjectsSheet ==
    [ name |-> "Projects",
      df |-> Frame(<<
        [ name |-> "Project", dtype |-> "object",
          cells |-> Cells(<<
                "P01", "P02", "P03", "P04", "P05", "P06", "P07", "P08",
                "P09", "P10", "P11", "P12", "P13", "P14", "P15", "P16",
                "P17", "P18", "P19", "P20", "P21">>) ],
        [ name |-> "Status", dtype |-> "object",
          cells |-> Cells(<<
                "Active", "Active", "Active", "Active", "Active", "Active",
                "Active", "Active", "Active", "Active", "Active", "Active",
                "Not started", "Active", "Active", "Active", "Active",
                "Active", "Active", "Active", "Active">>) ]>>) ]

TasksSheet ==
    [ name |-> "Tasks",
      df |-> Frame(<<
        [ name |-> "Task", dtype |-> "object",
          cells |-> Cells(<<
                "Install", "Testing", "Handover">>) ],
        [ name |-> "Remark", dtype |-> "object",
          cells |-> Cells(<<
                "Delivery delayed by 3 weeks, requires vendor approval first",
                "not enough installers on site, 4 short for the final stage now",
                "Completed as planned and signed off by the client on 12/01/2025">>) ]>>) ]

ContactsSheet ==
    [ name |-> "Contacts",
      df |-> Frame(<<
        [ name |-> "Owner", dtype |-> "object",
          cells |-> Cells(<<
                "Alice", "Bruno", "Carla">>) ],
        [ name |-> "Reviewer", dtype |-> "object",
          cells |-> Cells(<<
                "David", "Elena", "Frank">>) ]>>) ]

BudgetOfOneRegionSheet ==
    [ name |-> "Budget",
      df |-> Frame(<<
        [ name |-> "Region", dtype |-> "object",
          cells |-> Cells(<<
                "North">>) ],
        [ name |-> "Target", dtype |-> "int64",
          cells |-> Cells(<<
                100>>) ]>>) ]

ActualsOfOneRegionSheet ==
    [ name |-> "Actuals",
      df |-> Frame(<<
        [ name |-> "Region", dtype |-> "object",
          cells |-> Cells(<<
                "North">>) ],
        [ name |-> "Actual", dtype |-> "int64",
          cells |-> Cells(<<
                70>>) ]>>) ]

RegisterSheet ==
    [ name |-> "Register",
      df |-> Frame(<<
        [ name |-> "Region", dtype |-> "object",
          cells |-> Cells(<<
                "North", "South", "East", "West", "Central", "North",
                "South", "East", "West", "Central", "North", "South", "East",
                "West", "Central", "North", "South", "East", "West",
                "Central">>) ],
        [ name |-> "Status", dtype |-> "object",
          cells |-> Cells(<<
                "Active", "Active", "Active", "Active", "Active", "Active",
                "Active", "Active", "Active", "Blocked", "Active", "Active",
                "Active", "Active", "Active", "Active", "Active", "Active",
                "Active", "Blocked">>) ]>>) ]

ReadingsSheet ==
    [ name |-> "Readings",
      df |-> Frame(<<
        [ name |-> "Reading", dtype |-> "int64",
          cells |-> Cells(<<
                5, 5, 7, 7, 9, 9>>) ]>>) ]

EmptyBudgetSheet ==
    [ name |-> "Budget",
      df |-> Frame(<<
        [ name |-> "Region", dtype |-> "object",
          cells |-> Cells(<<
                >>) ],
        [ name |-> "Target", dtype |-> "int64",
          cells |-> Cells(<<
                >>) ]>>) ]

EmptySalesSheet ==
    [ name |-> "Sales",
      df |-> Frame(<<
        [ name |-> "Region", dtype |-> "object",
          cells |-> Cells(<<
                >>) ],
        [ name |-> "Actual", dtype |-> "int64",
          cells |-> Cells(<<
                >>) ]>>) ]

OrdersSheet ==
    [ name |-> "Orders",
      df |-> Frame(<<
        [ name |-> "Channel", dtype |-> "object",
          cells |-> Cells(<<
                "Web", "Web", "Web", "Web", "Web", "Web", "Web", "Web",
                "Web", "Web", "Web", "Fax", "Shop", "Shop", "Shop", "Shop",
                "Shop", "Shop", "Shop", "Shop", "Shop">>) ]>>) ]

CodesSheet ==
    [ name |-> "Codes",
      df |-> Frame(<<
        [ name |-> "Code", dtype |-> "object",
          cells |-> Cells(<<
                "AB12", "CD34", "EF56", "GH78">>) ]>>) ]

SitesSheet ==
    [ name |-> "Sites",
      df |-> Frame(<<
        [ name |-> "Site", dtype |-> "object",
          cells |-> Cells(<<
                "East", "West", "Nord", "Mitt", "Stad">>) ]>>) ]

LettersSheet ==
    [ name |-> "Letters",
      df |-> Frame(<<
        [ name |-> "Letter", dtype |-> "object",
          cells |-> Cells(<<
                "Alfa", "Beta", "Gama", "Delt", "Zeta", "Iota", "Kapa">>) ]>>) ]

NotesSheet ==
    [ name |-> "Notes",
      df |-> Frame(<<
        [ name |-> "Job", dtype |-> "object",
          cells |-> Cells(<<
                "Wiring", "Fitting", "Roofing">>) ],
        [ name |-> "Remark", dtype |-> "object",
          cells |-> Cells(<<
                "Two installers left the crew so we are 4 short for the final stage of work",
                "Materials arrived on site and were checked by the supervisor on arrival",
                "Work went as planned and was signed off by the client representative">>) ]>>) ]

TotalsSheet ==
    [ name |-> "Totals",
      df |-> Frame(<<
        [ name |-> "Total", dtype |-> "int64",
          cells |-> Cells(<<
                230, 230, 240, 240, 250, 250>>) ]>>) ]

SalesOnTargetSheet ==
    [ name |-> "Sales",
      df |-> Frame(<<
        [ name |-> "Region", dtype |-> "object",
          cells |-> Cells(<<
                "North", "South", "North">>) ],
        [ name |-> "Period", dtype |-> "datetime64",
          cells |-> Cells(<<
                -60, -60, -60>>) ],
        [ name |-> "Actual", dtype |-> "int64",
          cells |-> Cells(<<
                101, 80, 101>>) ]>>) ]

\* A plan sheet and an actuals sheet keyed by a column of the same name
PlanActualWorkbook ==
    [ dataset_id |-> "plan_actual", sheets |-> <<BudgetSheet, SalesSheet>> ]

\* The same with the actuals keyed by a column of another name, the plan
\* sheet as exported with an index column and padded headers
RenamedKeyWorkbook ==
    [ dataset_id |-> "renamed_key", sheets |-> <<BudgetSheetAsExported, SalesByAreaSheet>> ]

\* The same with a master sheet whose names share one value with the regions
SharedValueWorkbook ==
    [ dataset_id |-> "shared_value", sheets |-> <<BudgetSheet, SalesSheet, OfficesSheet>> ]

\* One sheet with a plan/actual column pair and a variance column
ReviewWorkbook ==
    [ dataset_id |-> "review", sheets |-> <<ReviewSheet>> ]

\* One sheet of numbers only
MetricsWorkbook ==
    [ dataset_id |-> "metrics", sheets |-> <<MetricsSheet>> ]

\* A status register
ProjectsWorkbook ==
    [ dataset_id |-> "projects", sheets |-> <<ProjectsSheet>> ]

\* A task list with free-text remarks
TasksWorkbook ==
    [ dataset_id |-> "tasks", sheets |-> <<TasksSheet>> ]

\* Two columns of names that have no name in common
ContactsWorkbook ==
    [ dataset_id |-> "contacts", sheets |-> <<ContactsSheet>> ]

\* A Budget sheet and an Actuals sheet of one region: target 100, actual 70
OneRegionWorkbook ==
    [ dataset_id |-> "one_region", sheets |-> <<BudgetOfOneRegionSheet, ActualsOfOneRegionSheet>> ]

\* Twenty rows: five regions, the status Active 18 times and Blocked twice
RegisterWorkbook ==
    [ dataset_id |-> "register", sheets |-> <<RegisterSheet>> ]

\* One column of repeated small numbers
ReadingsWorkbook ==
    [ dataset_id |-> "readings", sheets |-> <<ReadingsSheet>> ]

\* Two sheets that have headers and no rows
EmptySheetsWorkbook ==
    [ dataset_id |-> "empty_sheets", sheets |-> <<EmptyBudgetSheet, EmptySalesSheet>> ]

\* Twenty-one orders by channel, one of them by a channel used once
OrdersWorkbook ==
    [ dataset_id |-> "orders", sheets |-> <<OrdersSheet>> ]

\* Three key columns of four-character values: 4 codes, 5 names, 7 names
ChainWorkbook ==
    [ dataset_id |-> "chain", sheets |-> <<CodesSheet, SitesSheet, LettersSheet>> ]

\* The plan and the actual sheet with a sheet of totals: 230 is the sum of Actual, 240 of Target
TotalsWorkbook ==
    [ dataset_id |-> "totals", sheets |-> <<BudgetSheet, SalesSheet, TotalsSheet>> ]

\* The plan sheet and an actual sheet with every value within 5% of its target
OnTargetWorkbook ==
    [ dataset_id |-> "on_target", sheets |-> <<BudgetSheet, SalesOnTargetSheet>> ]

\* The review sheet and a sheet of remarks, one of which reports a shortage
ShortfallWorkbook ==
    [ dataset_id |-> "shortfall", sheets |-> <<ReviewSheet, NotesSheet>> ]

Workbooks ==
    {PlanActualWorkbook,
     RenamedKeyWorkbook,
     SharedValueWorkbook,
     ReviewWorkbook,
     MetricsWorkbook,
     ProjectsWorkbook,
     TasksWorkbook,
     ContactsWorkbook,
     OneRegionWorkbook,
     RegisterWorkbook,
     ReadingsWorkbook,
     EmptySheetsWorkbook,
     OrdersWorkbook,
     ChainWorkbook,
     TotalsWorkbook,
     OnTargetWorkbook,
     ShortfallWorkbook}

\* ---- analyze(), one action per stage ----
MaxRuns == 2

\* A processing note without its timestamp: the text and what is put into it
Note(text, strs, nums) == [text |-> text, strs |-> strs, nums |-> nums]

\* The step marker of a note, 0 for a note that is not the opening of a step
StepOf(note) ==
    CASE note.text = "Step 1: Normalizing data..." -> 1
      [] note.text = "Step 2: Classifying sheet roles..." -> 2
      [] note.text = "Step 3: Detecting entities..." -> 3
      [] note.text = "Step 4: Building entity relationship graph..." -> 4
      [] note.text = "Step 5: Detecting metrics and dimensions..." -> 5
      [] note.text = "Step 6: Analyzing plan-actual gaps..." -> 6
      [] note.text = "Step 7: Extracting constraints..." -> 7
      [] note.text = "Step 8: Generating decision candidates..." -> 8
      [] note.text = "Step 9: Compiling results..." -> 9
      [] OTHER -> 0

\* The context after DecisionContext(metadata={...}) and what the stages put
\* into it that no component holds: metadata and entity_graph
NewContext(dataset_id, sheet_count) ==
    [ metadata |-> [ dataset_id |-> dataset_id, sheet_count |-> sheet_count,
                     global_metrics |-> {}, global_dimensions |-> {} ],
      entity_graph |-> <<>> ]

NoContext == NewContext(None, 0)

\* _detect_metrics_dimensions: the names of the columns of the given semantic types
ColumnsOfTypes(sheet_profiles, types) ==
    UNION {{sheet_profiles[k].column_profiles[c].name :
                c \in {j \in DOMAIN sheet_profiles[k].column_profiles :
                          sheet_profiles[k].column_profiles[j].semantic_type \in types}} :
           k \in DOMAIN sheet_profiles}

\* The engine after DecisionIntelligenceEngine.__init__, idle
EngineInit ==
    /\ entity_detector = NewEntityDetector
    /\ self_relationship_graph = NewRelationshipGraph
    /\ gap_analyzer = NewGapAnalyzer
    /\ constraint_extractor = NewConstraintExtractor
    /\ decision_generator = NewDecisionGenerator
    /\ self_context = NoContext
    /\ self_processing_notes = <<>>
    /\ engine_calls = 0
    /\ epc = "idle"
    /\ arg_dataset_id = None
    /\ local_normalized_datasets = <<>>
    /\ local_sheet_profiles = <<>>
    /\ uuids = 0
    /\ runs = 0
    /\ results = {}

\* engine = DecisionIntelligenceEngine(): a new engine with new components
Construct ==
    /\ epc = "idle"
    /\ engine_calls > 0
    /\ entity_detector' = NewEntityDetector
    /\ self_relationship_graph' = NewRelationshipGraph
    /\ gap_analyzer' = NewGapAnalyzer
    /\ constraint_extractor' = NewConstraintExtractor
    /\ decision_generator' = NewDecisionGenerator
    /\ self_context' = NoContext
    /\ self_processing_notes' = <<>>
    /\ engine_calls' = 0
    /\ UNCHANGED <<epc, arg_dataset_id, local_normalized_datasets, local_sheet_profiles, uuids, runs, results>>
    /\ UNCHANGED nonEngineVars

\* analyze(datasets, dataset_id) up to the end of step 1
Analyze(workbook) ==
    /\ epc = "idle"
    /\ runs < MaxRuns
    /\ runs' = runs + 1
    /\ arg_dataset_id' = workbook.dataset_id
    /\ self_context' = NewContext(workbook.dataset_id, Len(workbook.sheets))
    /\ self_processing_notes' =
          << Note("Starting analysis of {} sheets", <<>>, <<Len(workbook.sheets)>>),
             Note("Step 1: Normalizing data...", <<>>, <<>>) >>
    /\ local_normalized_datasets' = _normalize_datasets(workbook.sheets)
    /\ epc' = "classify"
    /\ UNCHANGED <<entity_detector, self_relationship_graph, gap_analyzer, constraint_extractor, decision_generator, engine_calls, local_sheet_profiles, uuids, results>>
    /\ UNCHANGED nonEngineVars

\* Step 2: _classify_sheets
ClassifySheets ==
    /\ epc = "classify"
    /\ local_sheet_profiles' = classify_all_sheets(local_normalized_datasets)
    /\ self_processing_notes' = self_processing_notes
          \o <<Note("Step 2: Classifying sheet roles...", <<>>, <<>>)>>
          \o [k \in DOMAIN local_sheet_profiles' |->
                 Note("  Sheet '{}': {} (confidence: {:.2f})",
                      <<local_sheet_profiles'[k].name, local_sheet_profiles'[k].inferred_role>>,
                      <<local_sheet_profiles'[k].confidence>>)]
    /\ epc' = "entities"
    /\ UNCHANGED <<entity_detector, self_relationship_graph, gap_analyzer, constraint_extractor, decision_generator, self_context, engine_calls, arg_dataset_id, local_normalized_datasets, uuids, runs, results>>
    /\ UNCHANGED nonEngineVars

\* Step 3: _detect_entities
DetectEntities ==
    /\ epc = "entities"
    /\ entity_detector' = detect_entities(entity_detector, local_normalized_datasets,
                                          local_sheet_profiles, uuids)
    /\ uuids' = uuids + Len(entity_detector'.entities)
    /\ self_processing_notes' = self_processing_notes
          \o << Note("Step 3: Detecting entities...", <<>>, <<>>),
                Note("  Detected {} unique entities", <<>>,
                     <<Len(entity_detector'.entities)>>) >>
    /\ epc' = "graph"
    /\ UNCHANGED <<self_relationship_graph, gap_analyzer, constraint_extractor, decision_generator, self_context, engine_calls, arg_dataset_id, local_normalized_datasets, local_sheet_profiles, runs, results>>
    /\ UNCHANGED nonEngineVars

\* Step 4: _build_relationship_graph.  The list of the sheets of an entity is
\* made of a set, in an order the run does not control.
BuildRelationshipGraph ==
    /\ epc = "graph"
    /\ \E sheet_order \in SetOrders(Range(SheetNames(local_normalized_datasets))) :
          self_relationship_graph' =
              build_graph(self_relationship_graph, local_normalized_datasets,
                          entity_detector.entities, entity_detector,
                          local_sheet_profiles, sheet_order)
    /\ entity_detector' =
          [entity_detector EXCEPT !.entities = WithRelated(@, self_relationship_graph')]
    /\ self_context' = [self_context EXCEPT !.entity_graph = self_relationship_graph'.adjacency]
    /\ self_processing_notes' = self_processing_notes
          \o << Note("Step 4: Building entity relationship graph...", <<>>, <<>>),
                Note("  Built graph with {} relationships", <<>>,
                     <<Len(self_relationship_graph'.relationships)>>) >>
    /\ epc' = "metrics"
    /\ UNCHANGED <<gap_analyzer, constraint_extractor, decision_generator, engine_calls, arg_dataset_id, local_normalized_datasets, local_sheet_profiles, uuids, runs, results>>
    /\ UNCHANGED nonEngineVars

\* Step 5: _detect_metrics_dimensions
DetectMetricsDimensions ==
    /\ epc = "metrics"
    /\ self_context' = [self_context EXCEPT
          !.metadata.global_metrics =
              ColumnsOfTypes(local_sheet_profiles,
                             {"quantity", "currency", "metric", "percentage"}),
          !.metadata.global_dimensions =
              ColumnsOfTypes(local_sheet_profiles, {"dimension"})]
    /\ self_processing_notes' = self_processing_notes
          \o << Note("Step 5: Detecting metrics and dimensions...", <<>>, <<>>),
                Note("  Found {} metrics, {} dimensions", <<>>,
                     << Cardinality(self_context'.metadata.global_metrics),
                        Cardinality(self_context'.metadata.global_dimensions) >>) >>
    /\ epc' = "gaps"
    /\ UNCHANGED <<entity_detector, self_relationship_graph, gap_analyzer, constraint_extractor, decision_generator, engine_calls, arg_dataset_id, local_normalized_datasets, local_sheet_profiles, uuids, runs, results>>
    /\ UNCHANGED nonEngineVars

\* The notes of step 6 for the analyzer it leaves
GapNotes(analyzer, raised) ==
    <<Note("Step 6: Analyzing plan-actual gaps...", <<>>, <<>>)>>
    \o (IF raised THEN <<>>
        ELSE <<Note("  Found {} gaps ({} critical)", <<>>,
                    << Len(analyzer.gaps),
                       Cardinality({k \in DOMAIN analyzer.gaps :
                                       analyzer.gaps[k].severity = "critical"}) >>)>>)

\* Step 6: _analyze_gaps.  The sets of entity ids the value index holds are
\* iterated in an order the run does not control.
AnalyzeGaps ==
    /\ epc = "gaps"
    /\ \E hash_order \in SetOrders({entity_detector.entities[k].id :
                                        k \in DOMAIN entity_detector.entities}) :
          LET outcome == analyze_gaps(gap_analyzer, local_normalized_datasets,
                                      entity_detector, local_sheet_profiles, hash_order)
          IN  /\ gap_analyzer' = outcome.analyzer
              /\ epc' = IF outcome.raised THEN "raised" ELSE "constraints"
    /\ self_processing_notes' = self_processing_notes \o GapNotes(gap_analyzer', epc' = "raised")
    /\ UNCHANGED <<entity_detector, self_relationship_graph, constraint_extractor, decision_generator, self_context, engine_calls, arg_dataset_id, local_normalized_datasets, local_sheet_profiles, uuids, runs, results>>
    /\ UNCHANGED nonEngineVars

\* Step 7: _extract_constraints
ExtractConstraints ==
    /\ epc = "constraints"
    /\ constraint_extractor' = extract_constraints(constraint_extractor,
                                   local_normalized_datasets, entity_detector, local_sheet_profiles)
    /\ self_processing_notes' = self_processing_notes
          \o << Note("Step 7: Extracting constraints...", <<>>, <<>>),
                Note("  Extracted {} constraints ({} blocking)", <<>>,
                     << Len(constraint_extractor'.constraints),
                        Cardinality({k \in DOMAIN constraint_extractor'.constraints :
                            constraint_extractor'.constraints[k].constraint_type
                                \in {"blocking", "deadline", "dependency"}}) >>) >>
    /\ epc' = "decisions"
    /\ UNCHANGED <<entity_detector, self_relationship_graph, gap_analyzer, decision_generator, self_context, engine_calls, arg_dataset_id, local_normalized_datasets, local_sheet_profiles, uuids, runs, results>>
    /\ UNCHANGED nonEngineVars

\* The iteration orders of the sets of related entities that can show:
\* list(related)[:5] is the whole set, in the model a set again, unless the
\* set has more than five members
RelatedOrders(g) ==
    LET large == UNION {g.adjacency[k] :
                    k \in {j \in DOMAIN g.adjacency : Cardinality(g.adjacency[j]) > 5}}
    IN  {order \o OneOrder(DOMAIN g.adjacency \ large) : order \in SetOrders(large)}

\* Step 8: _generate_decisions.  The set of the entities related to one is
\* iterated in an order the run does not control.
GenerateDecisions ==
    /\ epc = "decisions"
    /\ \E hash_order \in RelatedOrders(self_relationship_graph) :
          decision_generator' =
              generate_decisions(decision_generator,
                                 [ gaps |-> gap_analyzer.gaps,
                                   constraints |-> constraint_extractor.constraints ],
                                 self_relationship_graph, hash_order)
    /\ self_processing_notes' = self_processing_notes
          \o <<Note("Step 8: Generating decision candidates...", <<>>, <<>>)>>
    /\ epc' = "result"
    /\ UNCHANGED <<entity_detector, self_relationship_graph, gap_analyzer, constraint_extractor, self_context, engine_calls, arg_dataset_id, local_normalized_datasets, local_sheet_profiles, uuids, runs, results>>
    /\ UNCHANGED nonEngineVars

\* Step 9: _build_result, the completion note and the return of analyze.  The
\* result holds the list of notes itself, so the completion note is in it.
BuildResult ==
    /\ epc = "result"
    /\ self_processing_notes' = self_processing_notes
          \o << Note("Step 9: Compiling results...", <<>>, <<>>),
                Note("Analysis complete. Found {} decision candidates.", <<>>,
                     <<Len(decision_generator.decisions)>>) >>
    /\ results' = results \cup
          {[ dataset_id |-> arg_dataset_id,
             earlier_calls |-> engine_calls,
             raised |-> FALSE,
             result |-> Some(_build_result(arg_dataset_id, self_context.metadata.sheet_count,
                                 ProfileObjects(local_sheet_profiles),
                                 entity_detector.entities, self_context.entity_graph,
                                 GapObjects(gap_analyzer.gaps),
                                 PlanObjects(gap_analyzer.plans),
                                 ActualObjects(gap_analyzer.actuals),
                                 constraint_extractor.constraints,
                                 DecisionObjects(decision_generator.decisions),
                                 get_top_decisions(decision_generator, 3),
                                 self_processing_notes')) ]}
    /\ engine_calls' = engine_calls + 1
    /\ epc' = "idle"
    /\ arg_dataset_id' = None
    /\ local_normalized_datasets' = <<>>
    /\ local_sheet_profiles' = <<>>
    /\ UNCHANGED <<entity_detector, self_relationship_graph, gap_analyzer, constraint_extractor, decision_generator, self_context, uuids, runs>>
    /\ UNCHANGED nonEngineVars

\* An exception raised in step 6 leaves analyze: no result
Propagate ==
    /\ epc = "raised"
    /\ results' = results \cup
          {[ dataset_id |-> arg_dataset_id, earlier_calls |-> engine_calls,
             raised |-> TRUE, result |-> Nothing ]}
    /\ engine_calls' = engine_calls + 1
    /\ epc' = "idle"
    /\ arg_dataset_id' = None
    /\ local_normalized_datasets' = <<>>
    /\ local_sheet_profiles' = <<>>
    /\ UNCHANGED <<entity_detector, self_relationship_graph, gap_analyzer, constraint_extractor, decision_generator, self_context, self_processing_notes, uuids, runs>>
    /\ UNCHANGED nonEngineVars

AnalyzeAny == \E workbook \in Workbooks : Analyze(workbook)

NextEngine ==
    \/ Construct
    \/ AnalyzeAny
    \/ ClassifySheets
    \/ DetectEntities
    \/ BuildRelationshipGraph
    \/ DetectMetricsDimensions
    \/ AnalyzeGaps
    \/ ExtractConstraints
    \/ GenerateDecisions
    \/ BuildResult
    \/ Propagate

\* ---- One call of _build_result on values from bounded sets ----
MaxSpecial == 2

\* The numeric fields of the objects handed to _build_result
NumericFields ==
    { "gap.plan_value", "gap.actual_value", "gap.absolute_gap", "gap.percentage_gap",
      "plan.target_value", "actual.actual_value",
      "decision.impact_score", "decision.confidence_score", "decision.urgency_score",
      "profile.confidence" }

\* What a stage can leave in such a field besides a finite number: None, NaN,
\* an infinity, a value float() does not convert
SpecialValues ==
    {Nothing, Some(NaN), Some(Infinity), Some(NegInfinity), Some(Unconvertible)}

\* The values of the numeric fields: finite but for those of S
BoundaryInputs(S) ==
    {[x \in NumericFields |-> IF x \in S THEN g[x] ELSE Some(Finite(1))] :
        g \in [S -> SpecialValues]}

\* One Gap, Plan, Actual, Decision and SheetProfile holding the given values
BoundaryGaps(values) ==
    << [ entity_id |-> "North", metric_name |-> "Target",
         plan_value |-> values["gap.plan_value"],
         actual_value |-> values["gap.actual_value"],
         absolute_gap |-> values["gap.absolute_gap"],
         percentage_gap |-> values["gap.percentage_gap"],
         direction |-> "under", severity |-> "critical" ] >>

BoundaryPlans(values) ==
    << [ entity_id |-> "North", metric_name |-> "Target",
         target_value |-> values["plan.target_value"], source_sheet |-> "Budget" ] >>

BoundaryActuals(values) ==
    << [ entity_id |-> "North", metric_name |-> "Target",
         actual_value |-> values["actual.actual_value"], source_sheet |-> "" ] >>

BoundaryDecisions(values) ==
    << [ decision_type |-> "investigate",
         summary |-> Summary("Critical gaps detected for {entity_id}", 1, "North"),
         actions |-> <<>>, supporting_gaps |-> <<>>, supporting_constraints |-> <<>>,
         impact_score |-> values["decision.impact_score"],
         confidence_score |-> values["decision.confidence_score"],
         urgency_score |-> values["decision.urgency_score"] ] >>

BoundaryProfiles(values) ==
    << [ name |-> "Budget", row_count |-> 1, col_count |-> 2,
         inferred_role |-> "plan", confidence |-> values["profile.confidence"],
         has_aggregations |-> FALSE, has_comparisons |-> FALSE,
         temporal_coverage |-> "future" ] >>

ResultIdle == rcall = [values |-> <<>>] /\ rret = Nothing

\* At most MaxSpecial of the fields hold a value that is not a finite number
ResultInit ==
    /\ \E S \in {T \in SUBSET NumericFields : Cardinality(T) <= MaxSpecial} :
           rcall \in {[values |-> v] : v \in BoundaryInputs(S)}
    /\ rret = Nothing

\* _build_result(...) of the objects holding the values of the call
CallBuildResult ==
    /\ rret = Nothing
    /\ rret' = Some(_build_result("boundary", 1, BoundaryProfiles(rcall.values), <<>>, <<>>,
                        BoundaryGaps(rcall.values), BoundaryPlans(rcall.values),
                        BoundaryActuals(rcall.values), <<>>,
                        BoundaryDecisions(rcall.values),
                        BoundaryDecisions(rcall.values), <<>>))
    /\ UNCHANGED rcall
    /\ UNCHANGED nonResultVars

NextResult == CallBuildResult

\* ---- One call of a query or a helper on arguments from bounded sets ----
MaxHops == 3

\* The ids of the graphs queried, and an id no graph has
ChainIds == {"a", "b", "c", "d"}

AbsentId == "x"

\* The pairs of ids an edge can join, one of them an id with itself
ChainPairs ==
    {<<"a", "b">>, <<"a", "c">>, <<"a", "d">>, <<"b", "c">>, <<"b", "d">>, <<"c", "d">>,
     <<"a", "a">>}

\* The graph after _add_relationship of one relationship for each pair
GraphOfPairs(pairs) ==
    LET order == OneOrder(pairs)
    IN  AddAll(NewRelationshipGraph,
               [k \in DOMAIN order |->
                   Relationship(order[k][1], order[k][2], "co-occurs", Rat(9, 10))])

\* graph.get_relationship_chain(start, max_depth) on every graph over the ids
ChainCalls ==
    {[fn |-> "get_relationship_chain", graph |-> GraphOfPairs(pairs),
      start_entity_id |-> start, max_depth |-> n] :
        pairs \in SUBSET ChainPairs, start \in ChainIds \cup {AbsentId}, n \in 0..MaxHops}

MaxSheets == 3

\* The names of up to MaxSheets + 1 sheets
ProfileNames == <<"Sheet1", "Sheet2", "Sheet3", "Sheet4">>

\* The role and the confidence (in tenths) _infer_role may have given a sheet
ProfileInputs ==
    {[inferred_role |-> role, confidence |-> confidence] :
        role \in {"plan", "actual", "transactional", "master"}, confidence \in {3, 5}}

\* self._refine_classifications(profiles, datasets) on the profiles of n sheets
RefineCalls(n) ==
    {[fn |-> "_refine_classifications",
      profiles |-> [k \in 1..n |-> [ name |-> ProfileNames[k],
                                     inferred_role |-> inputs[k].inferred_role,
                                     confidence |-> inputs[k].confidence ]]] :
        inputs \in [1..n -> ProfileInputs]}

MaxCols == 3

\* Headers: a name, the same with a blank in front, the name the renaming of
\* duplicates gives its first copy, and the header of an index column
HeaderInputs == {"Cost", " Cost", "Cost_0", "Unnamed: 0"}

\* The cells of a column of two rows: both filled, the first only, none
CellInputs == {<<Some(1), Some(1)>>, <<Some(1), Nothing>>, <<Nothing, Nothing>>}

\* self._normalize_datasets(datasets, sheet_profiles) on a workbook of one
\* sheet of two rows and n columns
NormalizeCalls(n) ==
    {[fn |-> "_normalize_datasets",
      datasets |-> <<[ name |-> "Sheet1",
                       df |-> [ index |-> <<0, 1>>,
                                cols |-> [k \in 1..n |->
                                             [ name |-> headers[k], dtype |-> "float64",
                                               cells |-> cells[k] ]] ] ]>>] :
        headers \in [1..n -> HeaderInputs], cells \in [1..n -> CellInputs]}

CallIdle == qcall = [fn |-> "none"] /\ qret = Nothing

CallInit ==
    /\ \/ qcall \in ChainCalls
       \/ \E n \in 0..MaxSheets : qcall \in RefineCalls(n)
       \/ \E n \in 0..MaxCols : qcall \in NormalizeCalls(n)
    /\ qret = Nothing

\* graph.get_relationship_chain(start_entity_id, max_depth)
CallGetRelationshipChain ==
    /\ qcall.fn = "get_relationship_chain"
    /\ qret = Nothing
    /\ qret' = Some(get_relationship_chain(qcall.graph, qcall.start_entity_id,
                                           qcall.max_depth))
    /\ UNCHANGED qcall
    /\ UNCHANGED nonCallVars

\* classifier._refine_classifications(profiles, datasets)
CallRefineClassifications ==
    /\ qcall.fn = "_refine_classifications"
    /\ qret = Nothing
    /\ qret' = Some(_refine_classifications(qcall.profiles))
    /\ UNCHANGED qcall
    /\ UNCHANGED nonCallVars

\* engine._normalize_datasets(datasets, sheet_profiles)
CallNormalizeDatasets ==
    /\ qcall.fn = "_normalize_datasets"
    /\ qret = Nothing
    /\ qret' = Some(_normalize_datasets(qcall.datasets))
    /\ UNCHANGED qcall
    /\ UNCHANGED nonCallVars

NextCalls ==
    \/ CallGetRelationshipChain
    \/ CallRefineClassifications
    \/ CallNormalizeDatasets

-----------------------------------------------------------------------------
(***************************************************************************)
(* Decision ledger (backend/server.py)                                     *)
(***************************************************************************)
\* Bounds of the ledger model.
NumHandlers == 2
MaxCalls == 3

Handlers == 1..NumHandlers

\* Decision ids a client may send; "d9" is in no stored analysis.
DecisionIds == {"d1", "d9"}
\* DecisionAction bodies a client may send (user_id defaults to "system",
\* notes to "").
Actions == { [user_id |-> "system", notes |-> ""],
             [user_id |-> "alice", notes |-> "checked"] }
Kinds == {"approve", "reject"}

\* The analyses stored by analyze_intelligence before the handlers run.
StoredAnalyses ==
    { [id |-> "a1", dataset_id |-> "ds1",
       decisions |-> { [id |-> "d1", decision_type |-> "investigate"],
                       [id |-> "d2", decision_type |-> "monitor"] }] }

\* db.intelligence_analyses.find_one({"results.decisions.id": decision_id})
FindAnalysis(coll, decision_id) ==
    LET hits == {a \in coll : \E d \in a.decisions : d.id = decision_id}
    IN  IF hits = {} THEN Nothing ELSE Some(CHOOSE a \in hits : TRUE)

\* next((d for d in decisions if d.get("id") == decision_id), None)
FindDecision(analysis, decision_id) ==
    LET hits == {d \in analysis.decisions : d.id = decision_id}
    IN  IF hits = {} THEN Nothing ELSE Some(CHOOSE d \in hits : TRUE)

\* Mutant of FindLedgerEntry: the query filters on the wrong field.
FindLedgerEntry_WrongField(coll, decision_id) ==
    LET hits == {i \in DOMAIN coll : coll[i].analysis_id = decision_id}
    IN  IF hits = {} THEN Nothing
        ELSE Some(coll[CHOOSE i \in hits : \A j \in hits : i <= j])

\* db.decision_ledger_entries.find_one({"decision_id": decision_id}):
\* the first stored entry with that decision id, or None.
FindLedgerEntry(coll, decision_id) ==
    LET hits == {i \in DOMAIN coll : coll[i].decision_id = decision_id}
    IN  IF hits = {} THEN Nothing
        ELSE Some(coll[CHOOSE i \in hits : \A j \in hits : i <= j])

\* The status a handler records: approve_decision writes "approved",
\* reject_decision writes "rejected".
RecordedStatus(kind) == IF kind = "approve" THEN "approved" ELSE "rejected"

\* The ledger_entry dict built by approve_decision / reject_decision.
MakeLedgerEntry(kind, decision_id, analysis, decision, action, now) ==
    [ decision_id   |-> decision_id,
      dataset_id    |-> analysis.dataset_id,
      analysis_id   |-> analysis.id,
      decision_type |-> decision.decision_type,
      evidence      |-> decision,
      status        |-> RecordedStatus(kind),
      acted_by      |-> action.user_id,
      acted_at      |-> now,
      notes         |-> action.notes ]

NoRequest == [kind |-> None, decision_id |-> None, user_id |-> None, notes |-> None]
NoResponse == [status |-> None, message |-> <<>>]

LedgerInit ==
    /\ intelligence_analyses = StoredAnalyses
    /\ ledger = <<>>
    /\ hpc = [h \in Handlers |-> "idle"]
    /\ hreq = [h \in Handlers |-> NoRequest]
    /\ hentry = [h \in Handlers |-> Nothing]
    /\ hresp = [h \in Handlers |-> NoResponse]
    /\ clock = 0
    /\ calls = 0

\* A client posts /decisions/{decision_id}/approve or .../reject; the handler
\* issues its first query and suspends.
Invoke(h, kind, decision_id, user_id, notes) ==
    /\ hpc[h] = "idle"
    /\ calls < MaxCalls
    /\ calls' = calls + 1
    /\ hreq' = [hreq EXCEPT ![h] = [kind |-> kind, decision_id |-> decision_id,
                                    user_id |-> user_id, notes |-> notes]]
    /\ hresp' = [hresp EXCEPT ![h] = NoResponse]
    /\ hentry' = [hentry EXCEPT ![h] = Nothing]
    /\ hpc' = [hpc EXCEPT ![h] = "find_analysis"]
    /\ UNCHANGED <<intelligence_analyses, ledger, clock>>
    /\ UNCHANGED nonLedgerVars

\* await db.intelligence_analyses.find_one(...) returns; the handler either
\* answers "Decision not found" or issues the ledger query and suspends.
AwaitAnalysis(h) ==
    /\ hpc[h] = "find_analysis"
    /\ LET analysis == FindAnalysis(intelligence_analyses, hreq[h].decision_id)
           decision == IF analysis = Nothing THEN Nothing
                       ELSE FindDecision(The(analysis), hreq[h].decision_id)
       IN  IF analysis = Nothing
           THEN /\ hresp' = [hresp EXCEPT ![h] =
                        [status |-> "error", message |-> <<"Decision not found">>]]
                /\ hpc' = [hpc EXCEPT ![h] = "done"]
           ELSE IF decision = Nothing
           THEN /\ hresp' = [hresp EXCEPT ![h] =
                        [status |-> "error", message |-> <<"Decision not found in analysis">>]]
                /\ hpc' = [hpc EXCEPT ![h] = "done"]
           ELSE /\ hresp' = hresp
                /\ hpc' = [hpc EXCEPT ![h] = "check_existing"]
    /\ UNCHANGED <<intelligence_analyses, ledger, hreq, hentry, clock, calls>>
    /\ UNCHANGED nonLedgerVars

\* await db.decision_ledger_entries.find_one(...) returns; the handler either
\* answers "Decision already <status>" or builds ledger_entry, issues
\* insert_one and suspends.
AwaitExisting(h) ==
    /\ hpc[h] = "check_existing"
    /\ LET existing == FindLedgerEntry(ledger, hreq[h].decision_id)
           analysis == FindAnalysis(intelligence_analyses, hreq[h].decision_id)
           decision == FindDecision(The(analysis), hreq[h].decision_id)
       IN  IF existing # Nothing
           THEN /\ hresp' = [hresp EXCEPT ![h] =
                        [status |-> "error",
                         message |-> <<"Decision already", The(existing).status>>]]
                /\ hpc' = [hpc EXCEPT ![h] = "done"]
                /\ UNCHANGED <<hentry, clock>>
           ELSE /\ hentry' = [hentry EXCEPT ![h] =
                        Some(MakeLedgerEntry(hreq[h].kind, hreq[h].decision_id,
                                The(analysis), The(decision), hreq[h], clock + 1))]
                /\ clock' = clock + 1
                /\ hpc' = [hpc EXCEPT ![h] = "insert"]
                /\ hresp' = hresp
    /\ UNCHANGED <<intelligence_analyses, ledger, hreq, calls>>
    /\ UNCHANGED nonLedgerVars

\* await db.decision_ledger_entries.insert_one(ledger_entry) completes and the
\* handler answers success.
AwaitInsert(h) ==
    /\ hpc[h] = "insert"
    /\ ledger' = Append(ledger, The(hentry[h]))
    /\ hresp' = [hresp EXCEPT ![h] =
            [status |-> "success",
             message |-> <<"Decision recorded in ledger", The(hentry[h]).status>>]]
    /\ hpc' = [hpc EXCEPT ![h] = "done"]
    /\ UNCHANGED <<intelligence_analyses, hreq, hentry, clock, calls>>
    /\ UNCHANGED nonLedgerVars

\* The response has been sent; the server can take the next request.
Respond(h) ==
    /\ hpc[h] = "done"
    /\ hpc' = [hpc EXCEPT ![h] = "idle"]
    /\ hreq' = [hreq EXCEPT ![h] = NoRequest]
    /\ hentry' = [hentry EXCEPT ![h] = Nothing]
    /\ hresp' = [hresp EXCEPT ![h] = NoResponse]
    /\ UNCHANGED <<intelligence_analyses, ledger, clock, calls>>
    /\ UNCHANGED nonLedgerVars

NextLedger ==
    \/ \E h \in Handlers, kind \in Kinds, d \in DecisionIds, a \in Actions :
          Invoke(h, kind, d, a.user_id, a.notes)
    \/ \E h \in Handlers : AwaitAnalysis(h)
    \/ \E h \in Handlers : AwaitExisting(h)
    \/ \E h \in Handlers : AwaitInsert(h)
    \/ \E h \in Handlers : Respond(h)

InitLedger == LedgerInit /\ GapFnIdle /\ EngineInit /\ GraphIdle /\ DecisionIdle /\ GroupingIdle /\ ResultIdle /\ CallIdle

SpecLedger == InitLedger /\ [][NextLedger]_vars

InitGapFn == LedgerInit /\ GapFnInit /\ EngineInit /\ GraphIdle /\ DecisionIdle /\ GroupingIdle /\ ResultIdle /\ CallIdle

InitEngine == LedgerInit /\ GapFnIdle /\ EngineInit /\ GraphIdle /\ DecisionIdle /\ GroupingIdle /\ ResultIdle /\ CallIdle

SpecEngine == InitEngine /\ [][NextEngine]_vars

SpecGapFn == InitGapFn /\ [][NextGapFn]_vars

InitGraph == LedgerInit /\ GapFnIdle /\ EngineInit /\ GraphIdle /\ DecisionIdle /\ GroupingIdle /\ ResultIdle /\ CallIdle

SpecGraph == InitGraph /\ [][NextGraph]_vars

InitDecisions == LedgerInit /\ GapFnIdle /\ EngineInit /\ GraphIdle /\ DecisionInit /\ GroupingIdle /\ ResultIdle /\ CallIdle

SpecDecisions == InitDecisions /\ [][NextDecisions]_vars

InitGrouping == LedgerInit /\ GapFnIdle /\ EngineInit /\ GraphIdle /\ DecisionIdle /\ GroupingInit /\ ResultIdle /\ CallIdle

SpecGrouping == InitGrouping /\ [][NextGrouping]_vars

InitResult == LedgerInit /\ GapFnIdle /\ EngineInit /\ GraphIdle /\ DecisionIdle /\ GroupingIdle /\ ResultInit /\ CallIdle

SpecResult == InitResult /\ [][NextResult]_vars

InitCalls == LedgerInit /\ GapFnIdle /\ EngineInit /\ GraphIdle /\ DecisionIdle /\ GroupingIdle /\ ResultIdle /\ CallInit

SpecCalls == InitCalls /\ [][NextCalls]_vars

\* ---- Claims about the ledger ----
EntriesFor(d) == {i \in DOMAIN ledger : ledger[i].decision_id = d}

HasEntry(d) == EntriesFor(d) # {}

SuccessesFor(d) ==
    {h \in Handlers : /\ hpc[h] = "done"
                      /\ hreq[h].decision_id = d
                      /\ hresp[h].status = "success"}

\* C1: for every decision id and every interleaving of concurrent approve /
\* reject handlers, the ledger holds at most one entry for the id and at most
\* one handler answers success.
C1_AtMostOneEntryPerDecision ==
    \A d \in DecisionIds :
        /\ Cardinality(EntriesFor(d)) <= 1
        /\ Cardinality(SuccessesFor(d)) <= 1

\* C2: a call made for a decision id that already has a ledger entry adds no
\* entry, never reaches the insert, and answers with an error; stored entries
\* keep their status, actor, timestamp and notes.
C2_ActedDecisionIsRejected ==
    [][ /\ \A i \in DOMAIN ledger : i \in DOMAIN ledger' /\ ledger'[i] = ledger[i]
        /\ \A h \in Handlers :
              LET d == IF hpc[h] = "idle" THEN hreq'[h].decision_id
                       ELSE hreq[h].decision_id
              IN  ( /\ hpc[h] \in {"idle", "find_analysis", "check_existing"}
                    /\ hpc'[h] # hpc[h]
                    /\ HasEntry(d) )
                  => /\ ledger' = ledger
                     /\ hpc'[h] # "insert"
                     /\ (hpc'[h] = "done" => hresp'[h].status = "error")
      ]_vars

\* C2 witness: a reject answered "Decision already approved" while the
\* approved entry is in the ledger.
C2_Witness ==
    \E h \in Handlers :
        /\ hpc[h] = "done"
        /\ hreq[h].kind = "reject"
        /\ hresp[h] = [status |-> "error", message |-> <<"Decision already", "approved">>]
        /\ \E i \in DOMAIN ledger : /\ ledger[i].decision_id = hreq[h].decision_id
                                     /\ ledger[i].status = "approved"

\* ---- Claims about the gap functions ----
\* The gaps a call of _create_gap or _analyze_difference_columns produced.
ProducedGaps ==
    IF gret = Nothing THEN {}
    ELSE IF gcall.fn = "_create_gap" THEN {The(gret).gap}
    ELSE IF gcall.fn = "_analyze_difference_columns" THEN Range(The(gret))
    ELSE {}

SeverityRank(s) ==
    CASE s = "normal" -> 0 [] s = "warning" -> 1 [] s = "critical" -> 2

RatNeg(q) == [num |-> -q.num, den |-> q.den]

\* C7: for every gap, from matched plan/actual values (plan = 0 and negative
\* plans included) or from a difference column, the sign of absolute_gap
\* matches direction: under => actual < plan, over => actual > plan, and
\* on_target only when |percentage_gap| < 5.
C7_GapSignMatchesDirection ==
    \A g \in ProducedGaps :
        /\ g.direction \in {"under", "over", "on_target"}
        /\ g.direction = "under" =>
              /\ g.absolute_gap < 0
              /\ g.plan_value # Nothing => The(g.actual_value) < The(g.plan_value)
        /\ g.direction = "over" =>
              /\ g.absolute_gap > 0
              /\ g.plan_value # Nothing => The(g.actual_value) > The(g.plan_value)
        /\ g.direction = "on_target" =>
              RatLess(RatAbs(g.percentage_gap), RatOfInt(5))

\* C7 witness: a negative plan exceeded (actual > plan) gives a negative
\* percentage gap and still direction "over".
C7_Witness ==
    \E g \in ProducedGaps :
        /\ g.plan_value # Nothing
        /\ The(g.plan_value) < 0
        /\ g.percentage_gap.num < 0
        /\ g.direction = "over"

\* C8: _calculate_severity is non-decreasing in |g| (normal < warning <
\* critical), depends only on |g|, and is normal below 5, warning between 5
\* and 15, critical above 15.
C8_SeverityMonotone ==
    (gret # Nothing /\ gcall.fn = "_calculate_severity") =>
        LET g == gcall.percentage_gap
            a == RatAbs(g)
            sev == The(gret)
        IN  /\ RatLess(a, RatOfInt(5)) => sev = "normal"
            /\ (RatLess(RatOfInt(5), a) /\ RatLess(a, RatOfInt(15))) => sev = "warning"
            /\ RatLess(RatOfInt(15), a) => sev = "critical"
            /\ sev = _calculate_severity(RatNeg(g))
            /\ \A g2 \in SeverityInputs :
                  RatLeq(a, RatAbs(g2)) =>
                      SeverityRank(sev) <= SeverityRank(_calculate_severity(g2))

\* C8 witness: the severity of -14.5 is "warning".
C8_Witness ==
    /\ gcall.fn = "_calculate_severity"
    /\ gcall.percentage_gap = [num |-> -29, den |-> 2]
    /\ gret = Some("warning")

\* C9: whichever strategy produced a gap, its severity is a function of
\* |percentage_gap| alone, and a gap with |percentage_gap| < 5 is "normal".
C9_SeverityFromPercentageOnly ==
    \A g \in ProducedGaps :
        /\ RatLess(RatAbs(g.percentage_gap), RatOfInt(5)) => g.severity = "normal"
        /\ \A g2 \in ProducedGaps :
              RatAbs(g.percentage_gap) = RatAbs(g2.percentage_gap)
                  => g.severity = g2.severity

\* ---- The results of analyze ----
\* The runs that returned a result
Returned == {r \in results : ~r.raised}

\* The ids of the entities of a result
EntityIdsOf(result) == {result.entities[k].id : k \in DOMAIN result.entities}

\* An entity reference without the generated id: the position of the entity
\* in the result's entity list; a reference that is no entity's id is kept
Anonymous(result, ref) ==
    IF ref \in EntityIdsOf(result)
    THEN "entity#" \o ToString(CHOOSE k \in DOMAIN result.entities :
                                    result.entities[k].id = ref)
    ELSE ref

\* The sheet roles, entities, gaps, plans, actuals and constraints of a
\* result, without its generated ids
Canonical(result) ==
    [ sheet_roles |-> result.sheet_roles,
      entity_count |-> result.entity_count,
      entities |-> [k \in DOMAIN result.entities |->
          [result.entities[k] EXCEPT !.id = Anonymous(result, @)]],
      gap_count |-> result.gap_count,
      critical_gaps |-> result.critical_gaps,
      gaps |-> [k \in DOMAIN result.gaps |->
          [result.gaps[k] EXCEPT !.entity_id = Anonymous(result, @)]],
      plans |-> [k \in DOMAIN result.plans |->
          [result.plans[k] EXCEPT !.entity_id = Anonymous(result, @)]],
      actuals |-> [k \in DOMAIN result.actuals |->
          [result.actuals[k] EXCEPT !.entity_id = Anonymous(result, @)]],
      constraint_count |-> result.constraint_count,
      blocking_constraints |-> result.blocking_constraints,
      constraints |-> [k \in DOMAIN result.constraints |->
          [result.constraints[k] EXCEPT !.entity_id = {Anonymous(result, ref) : ref \in @}]] ]

\* C3: the result of analyze on an engine that has already run analyze equals,
\* generated ids aside, the result of analyze on the same workbook on a newly
\* constructed engine: nothing of the earlier call is in the later result.
C3_EarlierCallLeavesNoTrace ==
    \A r1, r2 \in Returned :
        (r1.dataset_id = r2.dataset_id /\ r1.earlier_calls = 0 /\ r2.earlier_calls > 0)
            => Canonical(The(r1.result)) = Canonical(The(r2.result))

\* C4: two runs of the pipeline on the same workbook, each on a newly
\* constructed engine, return the same sheet roles, entities, gaps, plans,
\* actuals and constraints, generated ids aside.
C4_IndependentRunsAgree ==
    \A r1, r2 \in Returned :
        (r1.dataset_id = r2.dataset_id /\ r1.earlier_calls = 0 /\ r2.earlier_calls = 0)
            => Canonical(The(r1.result)) = Canonical(The(r2.result))

\* C5: in the result of analyze on a newly constructed engine, the entity_id
\* of every gap and every entity_id a constraint has is the id of an entity of
\* the result's entity list.
C5_NoDanglingEntityReference ==
    \A r \in Returned :
        r.earlier_calls = 0 =>
            LET result == The(r.result)
            IN  /\ \A k \in DOMAIN result.gaps :
                      result.gaps[k].entity_id \in EntityIdsOf(result)
                /\ \A k \in DOMAIN result.constraints :
                      result.constraints[k].entity_id \subseteq EntityIdsOf(result)

\* C6: gap analysis over a plan sheet and an actual or transactional sheet
\* whose columns belong to one entity does not raise, whatever the columns are
\* called: analyze never ends in an exception of step 6.
C6_GapAnalysisNeverRaises ==
    epc # "raised"

\* The Plan and Actual appended together with a gap: a position of the plan
\* and actual lists that holds the gap's entity id and metric name
HasPlanAndActual(analyzer, gap) ==
    \E p \in DOMAIN analyzer.plans \cap DOMAIN analyzer.actuals :
        /\ analyzer.plans[p].entity_id = gap.entity_id
        /\ analyzer.plans[p].metric_name = gap.metric_name
        /\ analyzer.actuals[p].entity_id = gap.entity_id
        /\ analyzer.actuals[p].metric_name = gap.metric_name

\* C10 as stated: every gap of the gap list, whichever strategy appended it,
\* has a Plan and an Actual of its entity id and metric name, and the plan and
\* actual lists have the same length.
C10_EveryGapHasPlanAndActual ==
    /\ Len(gap_analyzer.plans) = Len(gap_analyzer.actuals)
    /\ \A k \in DOMAIN gap_analyzer.gaps :
          HasPlanAndActual(gap_analyzer, gap_analyzer.gaps[k])

\* C10, amended: every gap built from a plan value and an actual value (by
\* _create_gap, strategies 1 and 2) has a Plan and an Actual of its entity id
\* and metric name, and the plan and actual lists have the same length; the
\* gaps of difference columns (strategy 3) have neither.
C10_CreatedGapsHavePlanAndActual ==
    /\ Len(gap_analyzer.plans) = Len(gap_analyzer.actuals)
    /\ \A k \in DOMAIN gap_analyzer.gaps :
          gap_analyzer.gaps[k].plan_value # Nothing
              => HasPlanAndActual(gap_analyzer, gap_analyzer.gaps[k])

\* C10 witness: after analyze_gaps the gap list holds a gap of _create_gap
\* whose entity id is an entity's, and a gap of a difference column.
C10_Witness ==
    /\ epc = "constraints"
    /\ \E k \in DOMAIN gap_analyzer.gaps :
          /\ gap_analyzer.gaps[k].plan_value # Nothing
          /\ EntityById(entity_detector.entities, gap_analyzer.gaps[k].entity_id) # Nothing
    /\ \E k \in DOMAIN gap_analyzer.gaps : gap_analyzer.gaps[k].plan_value = Nothing

\* ---- Claims about entity linking ----
\* The distinct values of a column of the workbook being analysed
ColumnValues(sheet_name, column_name) ==
    Range(StrValues(FrameOf(local_normalized_datasets, sheet_name), column_name))

\* C11: two candidate columns that entity linking puts into one entity group
\* have a value in common: columns with disjoint value sets (Jaccard 0) are
\* never linked.
C11_LinkedColumnsShareAValue ==
    epc = "gaps" =>
        \A k1, k2 \in DOMAIN entity_detector.column_to_entity :
            ( /\ k1 # k2
              /\ entity_detector.column_to_entity[k1] = entity_detector.column_to_entity[k2]
              /\ EntityById(entity_detector.entities,
                            entity_detector.column_to_entity[k1]) # Nothing )
                => ColumnValues(k1[1], k1[2]) \cap ColumnValues(k2[1], k2[2]) # {}

\* ---- Claims about the relationship graph ----
\* The relationships added so far between a and b, in either direction
AddedBetween(a, b) ==
    {added[i] : i \in {j \in DOMAIN added :
        {added[j].source_entity_id, added[j].target_entity_id} = {a, b}}}

\* The edges the index stores for the unordered pair {a, b}
StoredBetween(a, b) ==
    {k \in DOMAIN graph.relationship_index : {k[1], k[2]} = {a, b}}

\* C16: for every pair of ids between which a relationship was added,
\* get_relationship returns an edge whose strength is the largest strength added
\* between the two in either direction, and the index stores exactly one edge
\* for the pair.
C16_OneEdgeOfMaximumStrength ==
    \A a \in GraphIds, b \in GraphIds :
        (a # b /\ AddedBetween(a, b) # {}) =>
            /\ get_relationship(graph, a, b) # Nothing
            /\ \A rel \in AddedBetween(a, b) :
                   RatLeq(rel.strength, The(get_relationship(graph, a, b)).strength)
            /\ Cardinality(StoredBetween(a, b)) = 1

\* C17: get_relationship(a, b) and get_relationship(b, a) return the same
\* relationship, or both return nothing, for all ids a and b in every graph.
C17_LookupIgnoresOrder ==
    \A a \in GraphIds, b \in GraphIds :
        get_relationship(graph, a, b) = get_relationship(graph, b, a)

\* ---- Claims about decision generation ----
\* A score is a number from 0 to 1
UnitScore(q) == RatLeq(RatOfInt(0), q) /\ RatLeq(q, RatOfInt(1))

\* C12: every decision generate_decisions produces has impact, urgency and
\* confidence scores from 0 to 1, and so a composite score
\* 0.4*impact + 0.3*urgency + 0.3*confidence from 0 to 1, however large the
\* absolute gaps and however many neighbours an entity has.
C12_ScoresInUnitInterval ==
    \A generator \in dret :
        \A k \in DOMAIN generator.decisions :
            LET d == generator.decisions[k]
            IN  /\ UnitScore(d.impact_score)
                /\ UnitScore(d.urgency_score)
                /\ UnitScore(d.confidence_score)
                /\ UnitScore(CompositeScore(d.impact_score, d.urgency_score,
                                            d.confidence_score))

\* C12 witness: decisions were generated for critical gaps of more than 1000 in
\* total on an entity with more than ten neighbours; the gap decision and the
\* relationship decision both have impact 1.
C12_Witness ==
    /\ dret # Nothing
    /\ TotalGap(GapsWith(dcall.context.gaps, "e1", "critical")) > 1000
    /\ Cardinality(get_related_entities(dcall.graph, "e1")) > 10
    /\ \E k \in DOMAIN The(dret).decisions :
           /\ The(dret).decisions[k].decision_type = "investigate"
           /\ The(dret).decisions[k].impact_score = RatOfInt(1)
    /\ \E k \in DOMAIN The(dret).decisions :
           /\ The(dret).decisions[k].decision_type = "prioritize"
           /\ The(dret).decisions[k].impact_score = RatOfInt(1)

\* ---- Claims about decision grouping ----
\* C13: no two themes group_decisions returns have decision-id sets that
\* overlap by more than 80%, the overlap being measured against the size of
\* either of the two sets.
C13_NoTwoThemesOverlap ==
    \A r \in tret :
        \A i, j \in DOMAIN r.themes :
            i # j =>
                LET A == Range(r.themes[i].decision_ids)
                    B == Range(r.themes[j].decision_ids)
                IN  /\ 5 * Cardinality(A \cap B) <= 4 * Cardinality(A)
                    /\ 5 * Cardinality(A \cap B) <= 4 * Cardinality(B)

\* ---- Claims about the stages of analyze ----
\* The step markers of a list of notes, in the order of the notes
Markers(notes) ==
    LET steps == SelectSeq(notes, LAMBDA note : StepOf(note) > 0)
    IN  [k \in DOMAIN steps |-> StepOf(steps[k])]

\* The notes of an invocation that went through every stage: the start note,
\* the markers 1 to 9 once each in increasing order, the completion note last
AllStagesInOrder(notes) ==
    /\ Len(notes) >= 2
    /\ notes[1].text = "Starting analysis of {} sheets"
    /\ notes[Len(notes)].text = "Analysis complete. Found {} decision candidates."
    /\ Markers(notes) = <<1, 2, 3, 4, 5, 6, 7, 8, 9>>

\* C18: when an invocation of analyze() has ended, each of its nine stages
\* has run exactly once, in the fixed order: the processing notes of the
\* invocation carry the step markers 1 to 9 in increasing order between the
\* start note and the completion note.
C18_EveryInvocationRunsAllStages ==
    (epc = "idle" /\ engine_calls > 0) => AllStagesInOrder(self_processing_notes)

\* What holds of the invocations that return a result: the notes in the
\* result are those of all nine stages in order.
ReturnedRunsCarryAllMarkers ==
    \A r \in results :
        ~r.raised => AllStagesInOrder(The(r.result).processing_notes)

\* ---- Claims about the scenarios ----
\* C14: for the one-sheet workbook of 20 rows with a Region column of five
\* distinct values and a Status column holding "Active" 18 times and
\* "Blocked" twice, when constraint extraction has run, Region is classified
\* DIMENSION and is an entity candidate (a column mapped to an entity), and
\* the constraints hold one of type "blocking" for each of the two rows whose
\* status is "Blocked".
C14_RegisterYieldsTwoBlockingConstraints ==
    (epc = "decisions" /\ arg_dataset_id = "register") =>
        /\ SemanticTypeOf(ProfileOf(local_sheet_profiles, "Register"), "Region")
               = Some("dimension")
        /\ get_entity_for_column(entity_detector, "Register", "Region") # Nothing
        /\ Cardinality({k \in DOMAIN constraint_extractor.constraints :
               /\ constraint_extractor.constraints[k].source_sheet = "Register"
               /\ constraint_extractor.constraints[k].source_text = "Blocked"
               /\ constraint_extractor.constraints[k].constraint_type = "blocking"}) = 2

\* What the code does with the Region column of that workbook: it is
\* classified DIMENSION and mapped to an entity.
RegisterRegionIsDimensionAndCandidate ==
    (epc = "decisions" /\ arg_dataset_id = "register") =>
        /\ SemanticTypeOf(ProfileOf(local_sheet_profiles, "Register"), "Region")
               = Some("dimension")
        /\ get_entity_for_column(entity_detector, "Register", "Region") # Nothing

\* What the code does with the Status column of that workbook: it is
\* classified DIMENSION, not STATUS, and no constraint comes of the sheet.
RegisterStatusYieldsNoConstraint ==
    (epc = "decisions" /\ arg_dataset_id = "register") =>
        /\ SemanticTypeOf(ProfileOf(local_sheet_profiles, "Register"), "Status")
               = Some("dimension")
        /\ \A k \in DOMAIN constraint_extractor.constraints :
               constraint_extractor.constraints[k].source_sheet # "Register"


\* What the code does with a matched pair: every gap of a result that holds
\* a plan value p and an actual value a has absolute_gap = a - p and
\* percentage_gap = (a - p) / p * 100, or 100 when p = 0 and a # 0, or 0 when
\* both are 0.
MatchedPairArithmetic ==
    \A r \in results : \A res \in r.result :
        \A k \in DOMAIN res.gaps :
            LET g == res.gaps[k]
            IN  (g.plan_value # Nothing /\ g.actual_value # Nothing) =>
                    LET p == The(g.plan_value).value
                        a == The(g.actual_value).value
                    IN  /\ g.absolute_gap = Some(Finite(a - p))
                        /\ g.percentage_gap = Some(Finite(
                               IF p # 0 THEN Rat((a - p) * 100, p)
                               ELSE IF a # 0 THEN RatOfInt(100) ELSE RatOfInt(0)))

\* The gaps of a result are exactly one gap, of -30 percent, critical, under
OneCriticalGapOfMinus30(res) ==
    /\ res.gap_count = 1
    /\ Len(res.gaps) = 1
    /\ res.gaps[1].percentage_gap = Some(Finite(RatOfInt(-30)))
    /\ res.gaps[1].severity = "critical"
    /\ res.gaps[1].direction = "under"

\* C15: the result of the pipeline, on a new engine, for the two-sheet
\* workbook with a Budget sheet (Region, Target = 100) and an Actuals sheet
\* (Region, Actual = 70) holds exactly one gap, with percentage_gap = -30, severity "critical" and
\* direction "under"; and every gap of a matched pair (plan p, actual a) has
\* absolute_gap = a - p and percentage_gap = (a - p) / p * 100 (100 if p = 0
\* and a # 0, 0 if both are 0).
C15_BudgetAndActualsYieldOneGap ==
    /\ \A r \in results :
           (r.dataset_id = "one_region" /\ r.earlier_calls = 0 /\ ~r.raised) =>
               OneCriticalGapOfMinus30(The(r.result))
    /\ MatchedPairArithmetic

\* What the code does with that workbook on a new engine: neither sheet has
\* a date column, so neither is given the role plan or actual, and no gap is
\* produced.
OneRegionYieldsNoGap ==
    \A r \in results :
        (r.dataset_id = "one_region" /\ r.earlier_calls = 0) =>
            /\ ~r.raised
            /\ The(r.result).gaps = <<>>
            /\ \A k \in DOMAIN The(r.result).sheet_roles :
                   The(r.result).sheet_roles[k][2] = "master"


\* ---- Claims about a workbook without signal ----
\* The workbooks that yield no signal: no entity candidate, no plan/actual
\* pair, no constraint column
NoSignalIds == {"readings", "empty_sheets"}

\* A result without findings: the entity, gap, constraint and decision lists
\* are empty, the counts are 0, the top-decision summary is the no-candidates
\* message
InsufficientSignal(res) ==
    /\ res.entities = <<>> /\ res.entity_count = 0
    /\ res.gaps = <<>> /\ res.gap_count = 0 /\ res.critical_gaps = 0
    /\ res.constraints = <<>> /\ res.constraint_count = 0
    /\ res.blocking_constraints = 0
    /\ res.decisions = <<>> /\ res.decision_count = 0
    /\ res.top_decision_summary =
           [message |-> "No significant decision candidates identified",
            joined |-> <<>>]

\* C19: analyze() on a workbook that yields no signal (among them the
\* workbook whose sheets are all empty) returns normally, without raising, a
\* result whose entity, gap, constraint and decision lists are empty with
\* counts 0 and whose top-decision summary is the no-candidates message.
C19_NoSignalGivesEmptyResult ==
    \A r \in results :
        r.dataset_id \in NoSignalIds =>
            /\ ~r.raised
            /\ InsufficientSignal(The(r.result))

\* What holds of the engines that have not run analyze() before: a workbook
\* without signal gives the result without findings, and nothing is raised.
NoSignalOnNewEngineGivesEmptyResult ==
    \A r \in results :
        (r.dataset_id \in NoSignalIds /\ r.earlier_calls = 0) =>
            /\ ~r.raised
            /\ InsufficientSignal(The(r.result))


\* ---- Claims about the numbers of the result ----
\* A value of the result that is the absent value or a finite number
AbsentOrFinite(value) == value = Nothing \/ The(value).kind = "finite"

\* The values of the numeric fields of a result
NumericValuesOf(res) ==
    UNION { {res.gaps[k].plan_value, res.gaps[k].actual_value,
             res.gaps[k].absolute_gap, res.gaps[k].percentage_gap} :
                k \in DOMAIN res.gaps }
    \cup {res.plans[k].target_value : k \in DOMAIN res.plans}
    \cup {res.actuals[k].actual_value : k \in DOMAIN res.actuals}
    \cup UNION { {res.decisions[k].impact_score, res.decisions[k].confidence_score,
                  res.decisions[k].urgency_score} : k \in DOMAIN res.decisions }
    \cup {res.sheet_profiles[k].confidence : k \in DOMAIN res.sheet_profiles}

\* C20: every numeric field of the assembled result (the plan, actual,
\* absolute and percentage values of a gap, the target value of a plan, the
\* value of an actual, the impact, confidence and urgency scores of a
\* decision, the confidence of a sheet) is a finite number or the absent
\* value: a NaN or an infinity a stage left in one of them is not in the
\* result.
C20_ResultNumbersAreFiniteOrAbsent ==
    \A res \in rret : \A value \in NumericValuesOf(res) : AbsentOrFinite(value)

\* C20 witness: _build_result was handed a gap whose percentage is NaN and a
\* decision whose impact score is infinite; both fields of the result are
\* absent and the fields handed finite numbers hold them.
C20_Witness ==
    /\ rret # Nothing
    /\ rcall.values["gap.percentage_gap"] = Some(NaN)
    /\ rcall.values["decision.impact_score"] = Some(Infinity)
    /\ The(rret).gaps[1].percentage_gap = Nothing
    /\ The(rret).decisions[1].impact_score = Nothing
    /\ The(rret).gaps[1].absolute_gap = Some(Finite(1))
    /\ The(rret).sheet_profiles[1].confidence = Some(Finite(1))


\* ---- Claims about the ranking of decisions ----
\* The decisions of the candidates in the order the strategies generated them
GeneratedDecisions ==
    DecisionsOf(AllCandidates(dcall.context, dcall.graph, dcall.hash_order),
                dcall.context)

\* 0.4*impact + 0.3*urgency + 0.3*confidence of a decision
CompositeOf(d) == CompositeScore(d.impact_score, d.urgency_score, d.confidence_score)

\* The place of the i-th generated decision, given the composite scores in
\* the order of generation, in a list sorted by decreasing composite score in
\* which equal scores keep the order of generation
PlaceOf(scores, i) ==
    1 + Cardinality({j \in DOMAIN scores :
                        \/ RatLess(scores[i], scores[j])
                        \/ j < i /\ scores[j] = scores[i]})

\* C21: the list generate_decisions returns is ordered by non-increasing
\* composite score 0.4*impact + 0.3*urgency + 0.3*confidence, and decisions of
\* equal composite score stand in the order the strategies generated their
\* candidates (gap, constraint, pattern, relationship).
C21_RankedByScoreTiesInGenerationOrder ==
    \A generator \in dret :
        LET generated == GeneratedDecisions
            scores == [k \in DOMAIN generated |-> CompositeOf(generated[k])]
        IN  /\ Len(generator.decisions) = Len(generated)
            /\ \A k \in 1..(Len(generator.decisions) - 1) :
                   RatLeq(CompositeOf(generator.decisions[k + 1]),
                          CompositeOf(generator.decisions[k]))
            /\ \A i \in DOMAIN generated :
                   generator.decisions[PlaceOf(scores, i)] = generated[i]

\* C21 witness: a critical shortfall of 750 gives a gap-driven decision and a
\* pattern-driven decision of the same composite score 0.81, the pattern-driven
\* one generated later, and a decision of a lower score was generated before
\* one of a higher score.
C21_Witness ==
    /\ dret # Nothing
    /\ \E i, j \in DOMAIN GeneratedDecisions :
           /\ i < j
           /\ GeneratedDecisions[i].decision_type = "investigate"
           /\ GeneratedDecisions[j].decision_type = "investigate_systemic"
           /\ CompositeOf(GeneratedDecisions[i]) = CompositeOf(GeneratedDecisions[j])
    /\ \E i, j \in DOMAIN GeneratedDecisions :
           /\ i < j
           /\ RatLess(CompositeOf(GeneratedDecisions[i]), CompositeOf(GeneratedDecisions[j]))


\* ---- Claims about constraint-driven decisions ----
\* The entity keys (entity id or 'global') of the constraints of a type
KeysWith(constraints, constraint_type) ==
    {EntityKey(constraints[k]) :
        k \in {j \in DOMAIN constraints : constraints[j].constraint_type = constraint_type}}

\* The decisions of a type and urgency made for an entity key
DecisionsFor(decisions, decision_type, urgency, key) ==
    {k \in DOMAIN decisions :
        /\ decisions[k].decision_type = decision_type
        /\ decisions[k].urgency_score = urgency
        /\ decisions[k].summary.entity = key}

\* The decisions for an entity key that the constraint-driven strategy makes
ConstraintDecisionsFor(decisions, key) ==
    {k \in DOMAIN decisions :
        /\ decisions[k].decision_type \in {"escalate", "resolve", "sequence"}
        /\ decisions[k].summary.entity = key}

\* An 'allocate' decision of impact 0.5 is there exactly when a resource
\* constraint is
AllocateIffResource(decisions, constraints) ==
    (KeysWith(constraints, "resource") # {})
        <=> (\E k \in DOMAIN decisions :
                /\ decisions[k].decision_type = "allocate"
                /\ decisions[k].impact_score = Rat(5, 10))

\* C22: every entity key with a deadline constraint gets an 'escalate'
\* decision (urgency 0.95), every entity key with a blocking constraint a
\* 'resolve' decision (urgency 0.85), every entity key with a dependency
\* constraint a 'sequence' decision (urgency 0.6), and an 'allocate' decision
\* (impact 0.5) is made whenever a resource constraint exists.
C22_EachConstraintTypeGetsItsDecision ==
    \A generator \in dret :
        LET cs == dcall.context.constraints
            ds == generator.decisions
        IN  /\ \A key \in KeysWith(cs, "deadline") :
                   DecisionsFor(ds, "escalate", Rat(95, 100), key) # {}
            /\ \A key \in KeysWith(cs, "blocking") :
                   DecisionsFor(ds, "resolve", Rat(85, 100), key) # {}
            /\ \A key \in KeysWith(cs, "dependency") :
                   DecisionsFor(ds, "sequence", Rat(6, 10), key) # {}
            /\ AllocateIffResource(ds, cs)

\* C22 as the code has it: every entity key with a deadline, blocking or
\* dependency constraint gets exactly one decision, chosen by its most urgent
\* constraint type: 'escalate' (0.95) if it has a deadline constraint, else
\* 'resolve' (0.85) if it has a blocking constraint, else 'sequence' (0.6); an
\* 'allocate' decision (impact 0.5) is made exactly when a resource constraint
\* exists.
C22_OneDecisionByMostUrgentType ==
    \A generator \in dret :
        LET cs == dcall.context.constraints
            ds == generator.decisions
            deadline == KeysWith(cs, "deadline")
            blocking == KeysWith(cs, "blocking") \ deadline
            dependency == KeysWith(cs, "dependency") \ (deadline \cup blocking)
        IN  /\ \A key \in deadline :
                   /\ DecisionsFor(ds, "escalate", Rat(95, 100), key) # {}
                   /\ Cardinality(ConstraintDecisionsFor(ds, key)) = 1
            /\ \A key \in blocking :
                   /\ DecisionsFor(ds, "resolve", Rat(85, 100), key) # {}
                   /\ Cardinality(ConstraintDecisionsFor(ds, key)) = 1
            /\ \A key \in dependency :
                   /\ DecisionsFor(ds, "sequence", Rat(6, 10), key) # {}
                   /\ Cardinality(ConstraintDecisionsFor(ds, key)) = 1
            /\ \A k \in DOMAIN ds :
                   ds[k].decision_type \in {"escalate", "resolve", "sequence"}
                       => ds[k].summary.entity \in deadline \cup blocking \cup dependency
            /\ AllocateIffResource(ds, cs)

\* C22 witness: decisions were generated for an entity with a blocking and a
\* deadline constraint; it got an 'escalate' decision and no 'resolve'.
C22_Witness ==
    /\ dret # Nothing
    /\ "e1" \in KeysWith(dcall.context.constraints, "deadline")
                  \cap KeysWith(dcall.context.constraints, "blocking")
    /\ DecisionsFor(The(dret).decisions, "escalate", Rat(95, 100), "e1") # {}
    /\ DecisionsFor(The(dret).decisions, "resolve", Rat(85, 100), "e1") = {}


\* ---- Claims about the severity of constraints ----
\* The severity the mapping gives a constraint: that of its type, or low after
\* the downgrade for an extraction confidence of at most 0.7
SeverityFollowsType(c) ==
    c.severity \in {_severity_from_constraint_type(c.constraint_type), "low"}

\* C23: every extracted constraint, from a status, a remark or a category
\* column, has the severity of its type (high for blocking and deadline,
\* medium for dependency, resource and capacity, low for every other type such
\* as exception and in_progress), or low when its extraction confidence is at
\* most 0.7.
C23_SeverityGivenByType ==
    \A k \in DOMAIN constraint_extractor.constraints :
        SeverityFollowsType(constraint_extractor.constraints[k])

\* The constraints of status and remark columns follow the mapping: only a
\* constraint of type exception has another severity, medium.
OnlyExceptionsLeaveTheMapping ==
    \A k \in DOMAIN constraint_extractor.constraints :
        LET c == constraint_extractor.constraints[k]
        IN  ~SeverityFollowsType(c)
                => c.constraint_type = "exception" /\ c.severity = "medium"


\* ---- Claims about the clustering of candidates ----
\* The candidates of the run in the order _find_candidates lists them
RunCandidates == _find_candidates(local_normalized_datasets, local_sheet_profiles, 1)

\* The position, among the entities of the run, of the group a candidate was
\* put in
GroupIndex(c) ==
    CHOOSE g \in DOMAIN entity_detector.entities :
        entity_detector.entities[g].id
            = entity_detector.column_to_entity[<<c.sheet_name, c.column_name>>]

\* Two candidates reach the linking threshold
Similar(c1, c2) == RatLeq(ClusterThreshold, _calculate_similarity(c1, c2))

\* Every candidate of the run is in exactly one group of the run
CandidatesArePartitioned ==
    \A j \in DOMAIN RunCandidates :
        /\ <<RunCandidates[j].sheet_name, RunCandidates[j].column_name>>
               \in DOMAIN entity_detector.column_to_entity
        /\ \E g \in DOMAIN entity_detector.entities :
               entity_detector.entities[g].id
                   = entity_detector.column_to_entity[
                         <<RunCandidates[j].sheet_name, RunCandidates[j].column_name>>]

\* C24: entity linking is single-link clustering over the candidates in
\* order: the groups partition the candidates, and each candidate is in the
\* first group (in creation order) that holds an earlier candidate whose
\* similarity to it is at least 0.3, and starts a new group only when no
\* earlier candidate is that similar.
C24_SingleLinkClustering ==
    epc = "graph" =>
        /\ CandidatesArePartitioned
        /\ \A j \in DOMAIN RunCandidates :
               LET linked == {i \in 1..(j - 1) : Similar(RunCandidates[i], RunCandidates[j])}
                   groups == {GroupIndex(RunCandidates[i]) : i \in linked}
               IN  IF linked = {}
                   THEN \A i \in 1..(j - 1) :
                            GroupIndex(RunCandidates[i]) # GroupIndex(RunCandidates[j])
                   ELSE /\ GroupIndex(RunCandidates[j]) \in groups
                        /\ \A g \in groups : GroupIndex(RunCandidates[j]) <= g

\* What _cluster_candidates does: the groups partition the candidates, and a
\* group is its first candidate together with every candidate that reaches
\* the threshold with that first candidate and with the first candidate of no
\* earlier group.
GroupsGatherAroundTheirFirstCandidate ==
    epc = "graph" =>
        /\ CandidatesArePartitioned
        /\ \A j \in DOMAIN RunCandidates :
               LET first(i) == \A h \in 1..(i - 1) :
                                   GroupIndex(RunCandidates[h]) # GroupIndex(RunCandidates[i])
                   seeds == {i \in DOMAIN RunCandidates :
                                /\ i # j /\ first(i)
                                /\ Similar(RunCandidates[i], RunCandidates[j])
                                /\ \/ i < j
                                   \/ ~first(j)}
                   groups == {GroupIndex(RunCandidates[i]) : i \in seeds}
               IN  IF first(j)
                   THEN \A i \in 1..(j - 1) :
                            first(i) => ~Similar(RunCandidates[i], RunCandidates[j])
                   ELSE /\ GroupIndex(RunCandidates[j]) \in groups
                        /\ \A g \in groups : GroupIndex(RunCandidates[j]) <= g


\* ---- Claims about get_relationship_chain ----
\* The ids within k hops of s in the adjacency of g
RECURSIVE WithinHops(_, _, _)
WithinHops(g, s, k) ==
    IF k = 0 THEN {s}
    ELSE LET near == WithinHops(g, s, k - 1)
         IN  near \cup {v \in DOMAIN g.adjacency :
                           \E u \in near \cap DOMAIN g.adjacency : v \in g.adjacency[u]}

\* The shortest-path distance from s to an id within n hops of it
Distance(g, s, v, n) ==
    CHOOSE k \in 0..n : v \in WithinHops(g, s, k) /\ \A j \in 0..(k - 1) : v \notin WithinHops(g, s, j)

\* C25: get_relationship_chain(s, N) returns exactly the ids whose shortest
\* distance from s in the undirected adjacency is at most N, each tagged with
\* that distance, s itself with 0, for every graph, start id and N >= 0.
C25_ChainIsNodesWithinHopsWithDistance ==
    \A chain \in qret :
        qcall.fn = "get_relationship_chain" =>
            /\ DOMAIN chain = WithinHops(qcall.graph, qcall.start_entity_id, qcall.max_depth)
            /\ chain[qcall.start_entity_id] = 0
            /\ \A v \in DOMAIN chain :
                   chain[v] = Distance(qcall.graph, qcall.start_entity_id, v, qcall.max_depth)

\* C25 witness: a chain was returned for N = 2 that tags an id two hops away
\* with 2 and leaves out an id that is three hops away.
C25_Witness ==
    /\ qcall.fn = "get_relationship_chain"
    /\ qret # Nothing
    /\ qcall.max_depth = 2
    /\ \E v \in DOMAIN The(qret) : The(qret)[v] = 2
    /\ \E v \in WithinHops(qcall.graph, qcall.start_entity_id, 3) : v \notin DOMAIN The(qret)


\* ---- Claims about the refinement of sheet roles ----
\* Some sheet of the profiles has the role
HasRole(profiles, role) == \E k \in DOMAIN profiles : profiles[k].inferred_role = role

\* The sheets whose profile the refinement changed
ChangedSheets(profiles, refined) == {k \in DOMAIN profiles : refined[k] # profiles[k]}

\* C26: the refinement pass changes at most one sheet.  If some sheet is PLAN,
\* none is ACTUAL and at least one is TRANSACTIONAL, exactly one sheet, a
\* TRANSACTIONAL sheet of maximal confidence, becomes ACTUAL; otherwise no role
\* changes.  Every other sheet's role and every sheet's confidence stay.
C26_RefinementChangesAtMostOneSheet ==
    \A refined \in qret :
        qcall.fn = "_refine_classifications" =>
            LET profiles == qcall.profiles
                changed == ChangedSheets(profiles, refined)
            IN  /\ DOMAIN refined = DOMAIN profiles
                /\ Cardinality(changed) <= 1
                /\ \A k \in DOMAIN profiles : refined[k].confidence = profiles[k].confidence
                /\ IF /\ HasRole(profiles, "plan")
                      /\ ~HasRole(profiles, "actual")
                      /\ HasRole(profiles, "transactional")
                   THEN \E k \in DOMAIN profiles :
                            /\ changed = {k}
                            /\ profiles[k].inferred_role = "transactional"
                            /\ \A j \in DOMAIN profiles :
                                   profiles[j].inferred_role = "transactional"
                                       => profiles[j].confidence <= profiles[k].confidence
                            /\ refined[k] = [profiles[k] EXCEPT !.inferred_role = "actual"]
                   ELSE changed = {}

\* C26 witness: the pass ran on a PLAN sheet and two TRANSACTIONAL sheets of
\* different confidence, the less confident one first; the more confident one
\* became ACTUAL.
C26_Witness ==
    /\ qcall.fn = "_refine_classifications"
    /\ qret # Nothing
    /\ \E j, k \in DOMAIN qcall.profiles :
           /\ j < k
           /\ qcall.profiles[j].inferred_role = "transactional"
           /\ qcall.profiles[k].inferred_role = "transactional"
           /\ qcall.profiles[j].confidence < qcall.profiles[k].confidence
           /\ The(qret)[k].inferred_role = "actual"
           /\ The(qret)[j].inferred_role = "transactional"


\* ---- Claims about normalization ----
\* The column names of a normalized frame are pairwise distinct
DistinctColumns(df) ==
    \A j, k \in DOMAIN df.columns : j # k => df.columns[j] # df.columns[k]

\* A normalized frame has no 'Unnamed:' column and no row or column without
\* a value
NoUnnamedNoEmpty(df) ==
    /\ \A k \in DOMAIN df.columns : ~IsUnnamed(df.columns[k])
    /\ \A i \in DOMAIN df.index : \E c \in Range(df.columns) : df.data[c][i] # Nothing
    /\ \A c \in Range(df.columns) : \E i \in DOMAIN df.index : df.data[c][i] # Nothing

\* C27: after normalization every retained sheet has pairwise-distinct column
\* names, no column whose name starts with 'Unnamed:', and no fully-empty row
\* or column, for every list of column names, also with duplicated names,
\* names that differ by surrounding whitespace only, and names of the form
\* '<name>_<index>'.
C27_NormalizedColumnsDistinctAndClean ==
    \A normalized \in qret :
        qcall.fn = "_normalize_datasets" =>
            \A k \in DOMAIN normalized :
                DistinctColumns(normalized[k].df) /\ NoUnnamedNoEmpty(normalized[k].df)

\* The stripped headers of the sheet handed to _normalize_datasets
StrippedHeaders ==
    {StripName(qcall.datasets[1].df.cols[k].name) : k \in DOMAIN qcall.datasets[1].df.cols}

\* What holds of every retained sheet: distinct column names when no header
\* is the name the renaming gives a copy of a duplicated header; no 'Unnamed:'
\* column at all; and no empty row or column (the cells of a normalized frame
\* are kept by column name, so they are looked at when the names are
\* distinct).
NormalizedCleanAndDistinctWithoutIndexedName ==
    \A normalized \in qret :
        qcall.fn = "_normalize_datasets" =>
            \A k \in DOMAIN normalized :
                /\ "Cost_0" \notin StrippedHeaders => DistinctColumns(normalized[k].df)
                /\ \A c \in DOMAIN normalized[k].df.columns :
                       ~IsUnnamed(normalized[k].df.columns[c])
                /\ DistinctColumns(normalized[k].df) => NoUnnamedNoEmpty(normalized[k].df)


\* ---- Claims about the top-decision summary ----
\* The summaries of the first three decisions of a result's decision list
FirstThreeSummaries(res) ==
    [k \in 1..Min(3, Len(res.decisions)) |-> res.decisions[k].summary]

\* C28: the top-decision summary of a result is the '; '-joined summaries of
\* the first three decisions of the ranked decision list of the same result
\* (all of them when there are fewer than three), the decisions with the
\* highest composite score 0.4*impact + 0.3*urgency + 0.3*confidence.
C28_TopSummaryIsFirstThreeRanked ==
    \A r \in Returned :
        The(r.result).top_decision_summary.joined = FirstThreeSummaries(The(r.result))

\* What the code gives: the summary joins the summaries of the up to three
\* decisions get_top_decisions returns, which orders the generator's decisions
\* by (urgency + impact + confidence) / 3.
TopSummaryJoinsSomeDecisions ==
    \A r \in Returned :
        LET res == The(r.result)
        IN  /\ Len(res.top_decision_summary.joined) = Min(3, Len(res.decisions))
            /\ \A k \in DOMAIN res.top_decision_summary.joined :
                   \E j \in DOMAIN res.decisions :
                       res.decisions[j].summary = res.top_decision_summary.joined[k]


\* ---- Claims about the entity adjacency map of a result ----
\* The ids the entity adjacency map of a result names: its keys and their
\* neighbours
AdjacencyIds(result) ==
    DOMAIN result.entity_graph
        \cup UNION {result.entity_graph[k] : k \in DOMAIN result.entity_graph}

\* C29: every key and every neighbour in the entity adjacency map of a result
\* is the id of an entity of the result's entity list, whichever relationship
\* detector (co-occurrence, cross-sheet reference, aggregation) added the edge.
C29_AdjacencyNamesOnlyResultEntities ==
    \A r \in Returned :
        AdjacencyIds(The(r.result)) \subseteq EntityIdsOf(The(r.result))

\* What holds of the result of a newly constructed engine: an id of the
\* adjacency map is the id of an entity of the result or "sheet:<name>" for a
\* sheet of the result, the ids _find_aggregation_relationships gives its edges
AdjacencyOfNewEngineNamesEntitiesAndSheets ==
    \A r \in Returned :
        r.earlier_calls = 0 =>
            LET result == The(r.result)
            IN  AdjacencyIds(result) \subseteq
                    EntityIdsOf(result)
                        \cup {"sheet:" \o result.sheet_profiles[k].name :
                                 k \in DOMAIN result.sheet_profiles}


\* ---- Claims about the pattern-driven decisions ----
\* The decision types of a result's decisions
DecisionTypesOf(result) ==
    {result.decisions[k].decision_type : k \in DOMAIN result.decisions}

\* The directions of a result's gaps
GapDirectionsOf(result) ==
    {result.gaps[k].direction : k \in DOMAIN result.gaps}

\* C30: a 'verify_targets' decision is produced only when over-performance is
\* present: when no gap of the run has direction 'over' (in particular when
\* every gap is 'on_target') there is no 'verify_targets' decision; and
\* 'investigate_systemic' and 'verify_targets' are never both produced in one
\* run.
C30_VerifyTargetsOnlyWithOverperformance ==
    \A r \in Returned :
        LET result == The(r.result)
        IN  /\ "over" \notin GapDirectionsOf(result)
                  => "verify_targets" \notin DecisionTypesOf(result)
            /\ ~({"investigate_systemic", "verify_targets"} \subseteq DecisionTypesOf(result))


\* What holds of every result: 'investigate_systemic' and 'verify_targets'
\* are not produced together, and 'verify_targets' comes with gaps of which
\* fewer than 30% have direction 'under'
VerifyTargetsFollowsTheShareOfUnder ==
    \A r \in Returned :
        LET result == The(r.result)
            under == Cardinality({k \in DOMAIN result.gaps :
                                     result.gaps[k].direction = "under"})
        IN  /\ ~({"investigate_systemic", "verify_targets"} \subseteq DecisionTypesOf(result))
            /\ "verify_targets" \in DecisionTypesOf(result)
                   => Len(result.gaps) > 0 /\ 10 * under < 3 * Len(result.gaps)

=============================================================================
